---- MODULE Spec2Model ----
(***************************************************************************)
(* A model of fletch's Process (src/src/vm/process.cc): the atomic         *)
(* stack-limit word with its interrupt markers, the owner thread's         *)
(* HandleStackOverflow (marker acknowledgement and stack growth),          *)
(* UpdateStackLimit and CollectMutableGarbage, interleaved with            *)
(* Preempt/Profile/DebugInterrupt calls of other threads.                  *)
(*                                                                         *)
(* Every access to the atomic stack_limit_ is one step; what the owner     *)
(* thread does between two accesses touches only owner-private state (the  *)
(* heap, the coroutine's stack, the store buffer) and is part of the step  *)
(* that ends with the next access.                                         *)
(***************************************************************************)
EXTENDS Integers, Sequences, FiniteSets, TLC

(***************************************************************************)
(* Bounds of the model.                                                    *)
(***************************************************************************)
\* Width of a machine word (uword) in the model, in bits.
WordBits == 16
\* Frames on the coroutine's stack.
MaxFrames == 2
\* Threads that send the process a signal.
NumberOfSenders == 4
\* Classes and selectors of the program, and the entries of the two tables
\* of the lookup cache.
NumberOfClasses == 2
NumberOfSelectors == 3
PrimarySize == 2
SecondarySize == 2
\* Static fields and functions of the program.
NumberOfStatics == 1
NumberOfFunctions == 2
\* Objects on the process heap, the current stack apart.
MaxObjects == 2
\* The coroutines that wait for the one that runs, at most.
MaxCallers == 2
\* Messages in the mailbox, and instances a native allocates.
MaxMessages == 2
MaxInstances == 4
\* Ports the process creates.
NumberOfPorts == 2

(***************************************************************************)
(* Constants of the program.                                               *)
(***************************************************************************)
kPreemptMarker == 1
kProfileMarker == 2
kDebugInterruptMarker == 4
\* (1 << 3) - 1, the mask of the marker bits.
kMarkerMask == 7
WordModulus == 2 ^ WordBits
\* ~static_cast<uword>((1 << 3) - 1)
kMaxStackMarker == WordModulus - 1 - kMarkerMask
Markers == {kPreemptMarker, kProfileMarker, kDebugInterruptMarker}

\* Size of the stack SetupExecutionStack allocates, and the least growth.
kInitialStackSize == 256
kMinimumGrowth == 256

\* Collaborators outside process.cc.
kWordSize == 8
kStackHeaderSize == 32
kGuaranteedFrameSize == 7
MaxStackSizeInWords == 768
\* The two semispaces of the process heap and the program space.
SpaceSize == 16384
SpaceBase(s) == IF s = 0 THEN 8192 ELSE 32768
ProgramBase == 1024

NULL == 0

(***************************************************************************)
(* Bit operations on a word, for a one-bit marker m.                       *)
(***************************************************************************)
HasBit(w, m) == (w \div m) % 2 = 1
OrBit(w, m) == IF HasBit(w, m) THEN w ELSE w + m
AndNotBit(w, m) == IF HasBit(w, m) THEN w - m ELSE w
MarkerBits(w) == {m \in Markers : HasBit(w, m)}
Maximum(a, b) == IF a > b THEN a ELSE b

\* Utils::RoundUpToPowerOfTwo: the least power of two that is >= x.
RECURSIVE RoundUpFrom(_, _)
RoundUpFrom(p, x) == IF p >= x THEN p ELSE RoundUpFrom(2 * p, x)
RoundUpToPowerOfTwo(x) == RoundUpFrom(1, x)

(***************************************************************************)
(* Stacks.  A stack is [address, length, top, slots]: slots is the live   *)
(* part, slots[1] the word at index top and slots[length - top] the word  *)
(* at index length - 1 (the stack grows towards index 0).  The words      *)
(* below top are dead and are not represented.                             *)
(***************************************************************************)
\* next chains the stacks during a collection; Smi zero otherwise.
NoStack ==
    [address |-> NULL, length |-> 0, top |-> 0, slots |-> << >>, next |-> 0]
Height(st) == st.length - st.top
\* Stack::Pointer(index): the address of the word at index.
Pointer(st, index) == st.address + kStackHeaderSize + index * kWordSize
\* The index of the word at address a.
IndexOf(st, a) == (a - st.address - kStackHeaderSize) \div kWordSize
InStack(st, a) == a >= Pointer(st, st.top) /\ a < Pointer(st, st.length)
\* The word at index i, top <= i < length.
WordAt(st, i) == st.slots[i - st.top + 1]
StackBytes(length) == kStackHeaderSize + length * kWordSize

\* Frame: the walk over the frame-pointer links that starts at the word at
\* top.  A link is the address of the next link, NULL ends the chain; the
\* word after a link is the BCP of the frame the link leads to.
\* The walk is computed by halves, so that a deep stack is walked with few
\* nested evaluations: LinkRun is the first fuel indices of the walk from i,
\* in which the link at an index, moved by delta, leads to the next index.
RECURSIVE LinkRun(_, _, _, _)
LinkRun(st, i, fuel, delta) ==
    IF fuel = 0 \/ i < st.top \/ i >= st.length THEN << >>
    ELSE IF fuel = 1 THEN << i >>
    ELSE LET half == LinkRun(st, i, fuel \div 2, delta)
             last == half[Len(half)]
         IN  IF Len(half) < fuel \div 2 \/ WordAt(st, last) = NULL THEN half
             ELSE half \o LinkRun(st, IndexOf(st, WordAt(st, last) + delta),
                                  fuel - fuel \div 2, delta)
LinkIndices(st, i, fuel) == LinkRun(st, i, fuel, 0)
\* Indices of the link words, from the one at top to the NULL one.
Links(st) == IF Height(st) = 0 THEN << >> ELSE LinkIndices(st, st.top, Height(st))
LinkSet(st) == {Links(st)[j] : j \in 1..Len(Links(st))}
NumberOfFrames(st) == IF Len(Links(st)) = 0 THEN 0 ELSE Len(Links(st)) - 1
\* Frame::MovePrevious / ByteCodePointer / size: the frames met by the walk,
\* each with its BCP, its size and the distance of its frame pointer from
\* the end of the stack.
Frames(st) ==
    LET l == Links(st)
    IN  [j \in 1..(Len(l) - 1) |->
            [bcp |-> WordAt(st, l[j] + 1),
             size |-> l[j + 1] - l[j],
             fp |-> st.length - l[j + 1]]]
\* Every link of the chain leads to a word of this stack.
ChainInside(st) ==
    \A j \in 1..Len(Links(st)) :
        LET w == WordAt(st, Links(st)[j])
        IN  w = NULL \/ (InStack(st, w) /\ j < Len(Links(st)))

\* Stack::UpdateFramePointers(old_stack): every link of the chain is moved by
\* the distance between the ends of the two stacks.
RewriteLinks(st, i, delta, fuel) ==
    LET run == LinkRun(st, i, fuel, delta)
        links == {run[j] - st.top + 1 : j \in DOMAIN run}
    IN  [st EXCEPT !.slots = [k \in DOMAIN st.slots |->
                                IF k \in links /\ st.slots[k] # NULL
                                THEN st.slots[k] + delta ELSE st.slots[k]]]
UpdateFramePointers(st, old_stack) ==
    RewriteLinks(st, st.top,
                 Pointer(st, st.length) - Pointer(old_stack, old_stack.length),
                 Height(st))

(***************************************************************************)
(* The computations of process.cc.                                         *)
(***************************************************************************)
\* Variants of the computations below, each with one slip.
\* SetStackMarker that does not promote a real limit to the sentinel first.
SetStackMarkerWithoutPromotion(limit, marker) == OrBit(limit, marker)
\* SetStackMarker that adds the marker instead of or-ing it in.
SetStackMarkerAdding(limit, marker) ==
    ((IF limit < kMaxStackMarker THEN kMaxStackMarker ELSE limit) + marker) % WordModulus
\* SetStackMarker that stores the sentinel with its own marker alone.
SetStackMarkerOverwriting(limit, marker) == OrBit(kMaxStackMarker, marker)
\* UpdateStackLimit that replaces whatever limit it read.
UpdateStackLimitAlways(current_limit) == TRUE
\* UpdateStackLimit that leaves the bare sentinel alone.
UpdateStackLimitBelowSentinel(current_limit) == current_limit < kMaxStackMarker
\* HandleStackOverflow that tests the debug-interrupt marker first.
MarkerToAcknowledgeDebugFirst(current_limit) ==
    IF current_limit >= kMaxStackMarker
    THEN IF HasBit(current_limit, kDebugInterruptMarker) THEN kDebugInterruptMarker
         ELSE IF HasBit(current_limit, kPreemptMarker) THEN kPreemptMarker
         ELSE IF HasBit(current_limit, kProfileMarker) THEN kProfileMarker
         ELSE NULL
    ELSE NULL
\* HandleStackOverflow that tests the profile marker before the
\* debug-interrupt marker.
MarkerToAcknowledgeProfileBeforeDebug(current_limit) ==
    IF current_limit >= kMaxStackMarker
    THEN IF HasBit(current_limit, kPreemptMarker) THEN kPreemptMarker
         ELSE IF HasBit(current_limit, kProfileMarker) THEN kProfileMarker
         ELSE IF HasBit(current_limit, kDebugInterruptMarker) THEN kDebugInterruptMarker
         ELSE NULL
    ELSE NULL
\* HandleStackOverflow without the test of the profile marker.
MarkerToAcknowledgeWithoutProfile(current_limit) ==
    IF current_limit >= kMaxStackMarker
    THEN IF HasBit(current_limit, kPreemptMarker) THEN kPreemptMarker
         ELSE IF HasBit(current_limit, kDebugInterruptMarker) THEN kDebugInterruptMarker
         ELSE NULL
    ELSE NULL
\* HandleStackOverflow that does not round the addition up.
NewStackSizeWithoutRounding(length, addition) ==
    length + Maximum(kMinimumGrowth, addition)
\* HandleStackOverflow that refuses a new size equal to the maximum too.
ReachesMaxStackSize(new_size) == new_size >= MaxStackSizeInWords
\* HandleStackOverflow whose memcpy counts bytes where it means words.
GrowStackCopyingBytes(old, new_address, new_size) ==
    LET height == old.length - old.top
        new_top == new_size - height
        copied == [address |-> new_address, length |-> new_size, top |-> new_top,
                   slots |-> [j \in 1..height |->
                                 IF j <= height \div kWordSize
                                 THEN WordAt(old, old.top + j - 1) ELSE 0],
                   next |-> 0]
    IN  UpdateFramePointers(copied, old)
\* HandleStackOverflow without the call of UpdateFramePointers.
GrowStackWithoutFramePointers(old, new_address, new_size) ==
    LET height == old.length - old.top
        new_top == new_size - height
    IN  [address |-> new_address, length |-> new_size, top |-> new_top,
         slots |-> [j \in 1..height |-> WordAt(old, old.top + j - 1)], next |-> 0]

\* SetStackMarker: the value it tries to store over stack_limit.
SetStackMarkerUpdated(limit, marker) ==
    OrBit(IF limit < kMaxStackMarker THEN kMaxStackMarker ELSE limit, marker)
\* ClearStackMarker: its assertion and the value it tries to store.
ClearStackMarkerAssertion(limit, marker) == HasBit(limit, marker)
ClearStackMarkerUpdated(limit, marker) == AndNotBit(limit, marker)
\* UpdateStackLimit: whether it replaces the limit it read, and by what.
UpdateStackLimitApplies(current_limit) == current_limit <= kMaxStackMarker
RealStackLimit(st) == Pointer(st, kGuaranteedFrameSize + 2)
\* HandleStackOverflow: the marker it acknowledges for the limit it read
\* (NULL: none), and the result it then returns.
MarkerToAcknowledge(current_limit) ==
    IF current_limit >= kMaxStackMarker
    THEN IF HasBit(current_limit, kPreemptMarker) THEN kPreemptMarker
         ELSE IF HasBit(current_limit, kDebugInterruptMarker) THEN kDebugInterruptMarker
         ELSE IF HasBit(current_limit, kProfileMarker) THEN kProfileMarker
         ELSE NULL
    ELSE NULL
ResultFor(marker) ==
    IF marker = kPreemptMarker THEN "Interrupt"
    ELSE IF marker = kDebugInterruptMarker THEN "DebugInterrupt"
    ELSE "Continue"
\* HandleStackOverflow: the size of the new stack, and whether it is refused.
NewStackSize(length, addition) ==
    length + Maximum(kMinimumGrowth, RoundUpToPowerOfTwo(addition))
ExceedsMaxStackSize(new_size) == new_size > MaxStackSizeInWords
\* HandleStackOverflow: the new stack at new_address, filled from the old one.
GrowStack(old, new_address, new_size) ==
    LET height == old.length - old.top
        new_top == new_size - height
        copied == [address |-> new_address, length |-> new_size, top |-> new_top,
                   slots |-> [j \in 1..height |-> WordAt(old, old.top + j - 1)],
                   next |-> 0]
    IN  UpdateFramePointers(copied, old)

(***************************************************************************)
(* The process heap (object_memory.cc), as far as stacks use it: a space   *)
(* with a bump pointer; a collection copies the live stack to the other    *)
(* space.                                                                  *)
(***************************************************************************)
SpaceEnd(s) == SpaceBase(s) + SpaceSize
HeapHasRoom(h, bytes) == h.top + bytes <= SpaceEnd(h.space)
\* HeapObject::CloneInToSpace for a stack: the copy, its links moved.
CloneInToSpace(st, to_address) ==
    UpdateFramePointers([st EXCEPT !.address = to_address], st)
\* StoreBuffer::ReplaceAfterMutableGC: the buffer the collection filled, and
\* the entries of live objects, forwarded.
ReplaceAfterMutableGC(sb, new_sb, forwarding) ==
    new_sb \cup {forwarding[a] : a \in sb \cap DOMAIN forwarding}

\* Objects of the program and of the shared heap: program()->null_object()
\* and a string; Failure::retry_after_gc().
null_object == ProgramBase + 512
SharedString == ProgramBase + 1024
retry_after_gc == 3
\* A value is a Smi, a failure or the address of a heap object:
\* Object::IsHeapObject, Space::Includes.
IsHeapObject(value) == value >= ProgramBase
InSpace(s, a) == a >= SpaceBase(s) /\ a < SpaceEnd(s)
InProgramSpace(value) == value >= ProgramBase /\ value < SpaceBase(0)

\* The objects of the process heap: arrays, whose slots hold values, and
\* stacks, whose words hold frames (links, byte code pointers, Smis).
kArrayHeaderSize == 16
ArrayObject(slots) ==
    [kind |-> "array", slots |-> slots, length |-> Len(slots), top |-> 0, next |-> 0]
StackObject(st) ==
    [kind |-> "stack", slots |-> st.slots, length |-> st.length, top |-> st.top,
     next |-> st.next]
StackOf(address, object) ==
    [address |-> address, length |-> object.length, top |-> object.top,
     slots |-> object.slots, next |-> object.next]
ObjectBytes(object) ==
    IF object.kind = "stack" THEN StackBytes(object.length)
    ELSE kArrayHeaderSize + object.length * kWordSize
NoObjects == [a \in {} |-> ArrayObject(<< >>)]

\* The process's stack, as the visitor of a collection sees it: the copy
\* once the stack slot of the coroutine was visited.
ProcessStack(sc) ==
    IF sc.stack_address \in DOMAIN sc.forwarding
    THEN sc.forwarding[sc.stack_address] ELSE sc.stack_address
\* ChainStack without stack->set_next(process_stack->next()).
ChainStackDroppingRest(sc, address) ==
    LET process_stack == ProcessStack(sc)
        counted == [sc EXCEPT !.number_of_stacks = @ + 1]
    IN  IF process_stack # address
        THEN [counted EXCEPT !.to[process_stack].next = address]
        ELSE counted
\* ScavengeAndChainStacksVisitor::ChainStack.
ChainStack(sc, address) ==
    LET process_stack == ProcessStack(sc)
        counted == [sc EXCEPT !.number_of_stacks = @ + 1]
    IN  IF process_stack # address
        THEN [counted EXCEPT !.to[address].next = sc.to[process_stack].next,
                             !.to[process_stack].next = address]
        ELSE counted
\* ScavengePointerAndChainStack(p), for the value of the slot p: the
\* collection after the visit and the value the slot then holds.  The
\* ScavengeVisitor of CollectMutableGarbage is the same without the chaining.
ScavengePointerAndChainStack(sc, value) ==
    IF ~IsHeapObject(value) THEN [sc |-> sc, value |-> value]
    ELSE IF ~InSpace(sc.from_space, value) THEN [sc |-> sc, value |-> value]
    ELSE IF value \in DOMAIN sc.forwarding
    THEN [sc |-> sc, value |-> sc.forwarding[value]]
    ELSE LET object == sc.from[value]
             clone == IF object.kind = "stack"
                      THEN StackObject(CloneInToSpace(StackOf(value, object), sc.top))
                      ELSE object
             copied == [sc EXCEPT !.to = (sc.top :> clone) @@ @,
                                  !.forwarding = (value :> sc.top) @@ @,
                                  !.top = @ + ObjectBytes(object)]
         IN  [sc |-> IF sc.chaining /\ object.kind = "stack"
                     THEN ChainStack(copied, sc.top) ELSE copied,
              value |-> sc.top]
\* PointerVisitor::VisitBlock over the slots of the to-space object at
\* address, from slot i on.
RECURSIVE VisitBlock(_, _, _)
VisitBlock(sc, address, i) ==
    IF i > Len(sc.to[address].slots) THEN sc
    ELSE LET visited == ScavengePointerAndChainStack(sc, sc.to[address].slots[i])
         IN  VisitBlock([visited.sc EXCEPT !.to[address].slots[i] = visited.value],
                        address, i + 1)
\* The roots, visited one after the other.
RECURSIVE VisitRoots(_, _, _)
VisitRoots(sc, names, i) ==
    IF i > Len(names) THEN sc
    ELSE LET visited == ScavengePointerAndChainStack(sc, sc.roots[names[i]])
         IN  VisitRoots([visited.sc EXCEPT !.roots[names[i]] = visited.value],
                        names, i + 1)
\* The coroutines the current one leads to, and their stacks, visited with the
\* fields of the current coroutine.
RECURSIVE VisitCallers(_, _)
VisitCallers(sc, i) ==
    IF i > Len(sc.callers) THEN sc
    ELSE LET visited == ScavengePointerAndChainStack(sc, sc.callers[i])
         IN  VisitCallers([visited.sc EXCEPT !.callers[i] = visited.value], i + 1)
\* Space::CompleteScavengeMutable: the objects of the to-space are scanned in
\* the order of their addresses, from scan on.  The words of a stack hold no
\* pointers to objects of the process heap.
RECURSIVE CompleteScavengeMutable(_, _)
CompleteScavengeMutable(sc, scan) ==
    IF scan >= sc.top THEN sc
    ELSE LET object == sc.to[scan]
         IN  CompleteScavengeMutable(
                 IF object.kind = "stack" THEN sc ELSE VisitBlock(sc, scan, 1),
                 scan + ObjectBytes(object))
\* The store buffer CompleteScavengeMutable fills: the objects with a field
\* that targets the program space.
PointersToProgramSpace(to) ==
    {a \in DOMAIN to : \E i \in 1..Len(to[a].slots) : InProgramSpace(to[a].slots[i])}

\* A variant of the roots below without the current exception.
IterateRootsWithoutException == << "statics_", "coroutine_" >>
\* Process::IterateRoots: the roots in the order of their visits.  There is
\* no debug info, and the messages of the mailbox hold no pointers to the
\* process heap.
IterateRoots == << "statics_", "coroutine_", "exception_" >>

(***************************************************************************)
(* State.                                                                  *)
(***************************************************************************)
VARIABLES
    stack_limit,    \* Process::stack_limit_, the atomic word
    coroutine_,     \* Process::coroutine_: "null" or "coroutine"
    stack,          \* coroutine_->stack()
    heap,           \* the process heap: [space, top]
    store_buffer,   \* Process::store_buffer_: addresses of the objects in it
    owner,          \* the owner thread: where it is and its locals
    setters,        \* the other threads: where each is and its locals
    pending,        \* history: markers set by a completed call, not yet cleared
    call            \* history: the owner's current or last HandleStackOverflow

\* Process::signal_ and the threads in SendSignal.
VARIABLES
    signal_,        \* Process::signal_, the atomic slot: NULL or a signal
    signal_refs,    \* the reference count of every signal
    senders         \* the threads that call SendSignal: where each is

\* The lookup cache of the thread that runs the process (ThreadState::cache_).
VARIABLES
    primary,        \* LookupCache::primary(): index -> entry
    secondary,      \* LookupCache::secondary(): index -> entry
    lookup          \* history: the last LookupEntrySlow call

\* The mailbox and what ProcessQueueGetMessage touches.
VARIABLES
    messages,       \* the mailbox: its messages, ordered by arrival
    current_message,\* MessageMailbox::CurrentMessage(): its place in messages
    weak_pointers,  \* the weak pointers of the heaps: {[object, callback]}
    foreign_memory, \* the foreign-memory counter of the process heap
    handle_refs,    \* the reference count of the ProcessHandle of a signal
    merged_heaps,   \* the messages whose child heaps were merged
    instances,      \* the number of instances allocated so far
    native,         \* history: the last ProcessQueueGetMessage call
    delivered       \* history: the messages the native has returned

\* The foreign-memory instances and their finalizers.
VARIABLES
    foreign_fields, \* instance -> field 2 of a foreign-memory instance, a Smi,
                    \* and, as history, the message it was made for
    garbage,        \* the instances that nothing refers to any more
    finalized       \* history: instance -> how often its finalizer has run

\* The ports of the process and their channels.
VARIABLES
    channels,       \* Port::channel(): port -> the channel instance or NULL
    channel_call    \* history: the last ProcessQueueGetChannel call

\* The end of the process: Cleanup and the destructor.
VARIABLES
    ports_,         \* Process::ports_: the list of the ports owned, head first
    port_process,   \* Port::process_: port -> "process" or "null", and, as
                    \* history, the number of OwnerProcessTerminating calls
    process_handle_,\* the ProcessHandle: its reference count and its process
    links,          \* Process::links(): the linked and the monitoring processes
    signals,        \* history: the signals sent to other processes, in order
    cleanup,        \* the owner in Cleanup: where it is and its locals
    destroyed       \* history: whether ~Process ran and what its assertion found

\* The debugger.
VARIABLES
    debug_info_,    \* Process::debug_info_: NoDebugInfo stands for NULL
    step_call       \* history: the last PrepareStepOver or PrepareStepOut call

\* The objects of the process heap and the roots.
VARIABLES
    objects,        \* the objects of the heap but the current stack: address -> object
    statics_,       \* Process::statics_
    exception_,     \* Process::exception_
    returned,       \* the last factory called and what it returned, until
                    \* the next collection
    callers         \* the stacks of the coroutines that the current coroutine
                    \* leads to: their addresses

\* The functions of the program and the stacks during a program collection.
VARIABLES
    cooked_stack_deltas_,   \* Process::cooked_stack_deltas_: a list per stack
    functions,              \* the program heap: function -> its address
    program_gc              \* the program collection: its phase and history

stackVars == << stack_limit, coroutine_, stack, heap, store_buffer, owner, setters,
                pending, call >>
signalVars == << signal_, signal_refs, senders >>
cacheVars == << primary, secondary, lookup >>
mailboxVars == << messages, current_message, weak_pointers, foreign_memory,
                  handle_refs, merged_heaps, instances, native, delivered >>
objectVars == << objects, statics_, exception_, returned, callers >>
cookVars == << cooked_stack_deltas_, functions, program_gc >>
finalizerVars == << foreign_fields, garbage, finalized >>
channelVars == << channels, channel_call >>
lifecycleVars == << ports_, port_process, process_handle_, links, signals, cleanup,
                    destroyed >>
debugVars == << debug_info_, step_call >>
vars == << stackVars, objectVars, cookVars, signalVars, cacheVars, mailboxVars,
           finalizerVars, channelVars, lifecycleVars, debugVars >>
\* What the operations on the stack and its limit, on the signal, on the
\* lookup cache and on the mailbox leave alone.
\* What a collection leaves alone besides the mailbox and the finalizers.
besidesCollection == << cookVars, signalVars, cacheVars, lifecycleVars, debugVars >>
besidesStack == << cookVars, signalVars, cacheVars, mailboxVars, finalizerVars,
                  channelVars, lifecycleVars, debugVars >>
besidesCook == << signalVars, cacheVars, mailboxVars, finalizerVars, channelVars,
                 lifecycleVars, debugVars >>
besidesSignal == << stackVars, objectVars, cookVars, cacheVars, mailboxVars,
                   finalizerVars, channelVars, lifecycleVars, debugVars >>
besidesCache == << stackVars, objectVars, cookVars, signalVars, mailboxVars,
                  finalizerVars, channelVars, lifecycleVars, debugVars >>
besidesMailbox == << stackVars, objectVars, cookVars, signalVars, cacheVars,
                    channelVars, lifecycleVars, debugVars >>
besidesChannel == << stackVars, objectVars, cookVars, signalVars, cacheVars,
                    finalizerVars, lifecycleVars, debugVars >>
besidesLifecycle == << stackVars, objectVars, cookVars, signalVars, cacheVars,
                      channelVars, debugVars >>
besidesDebug == << objectVars, cookVars, signalVars, cacheVars, mailboxVars,
                  finalizerVars, channelVars, lifecycleVars >>

\* The threads other than the owner that set markers.
Setters == {"t1", "t2"}
\* The values HandleStackOverflow is called with.
Additions == {4, 257}
\* What the interpreter pushes: a byte code pointer and the frame's locals.
PushedFrames == {[bcp |-> ProgramBase + 8, locals |-> << >>],
                 [bcp |-> ProgramBase + 40, locals |-> << 3 >>]}

IdleOwner ==
    [pc |-> "idle", marker |-> NULL, limit |-> 0, new_limit |-> 0,
     addition |-> 0, new_size |-> 0, cont |-> "return"]
IdleSetter == [pc |-> "idle", marker |-> NULL, limit |-> 0]
NoCall ==
    [outcome |-> "none", addition |-> 0, entry_limit |-> 0, entry_pending |-> {},
     entry_stack |-> NoStack,
     acked |-> NULL, allocs |-> << >>, gcs |-> 0, gc_after |-> 0,
     result |-> "none"]

\* An entry of the lookup cache, and the empty one.
Entry(clazz, selector, target, tag) ==
    [clazz |-> clazz, selector |-> selector, target |-> target, tag |-> tag]
EmptyEntry == Entry(NULL, 0, NULL, 0)
NoLookup ==
    [returned |-> "none", p |-> 0, clazz |-> NULL, selector |-> 0,
     old |-> EmptyEntry, index |-> 0]

\* Message::Kind, and the size of the buffer of a foreign message.
MessageKinds ==
    {"IMMEDIATE", "IMMUTABLE_OBJECT", "FOREIGN", "FOREIGN_FINALIZED",
     "LARGE_INTEGER", "EXIT", "PROCESS_DEATH_SIGNAL"}
ForeignSize == 16
NoNative == [kind |-> "none", result |-> "none", message |-> 0, field0 |-> 0]

\* No ProcessQueueGetChannel call was made yet.
NoChannelCall == [result |-> NULL, entry |-> 0, dropped |-> 0]
\* The owner is not in Cleanup.
NoCleanup == [pc |-> "none", kind |-> "none", told |-> << >>]
\* No debugger is attached: debug_info_ is NULL.  A DebugInfo holds whether
\* the process is stepping, the breakpoints and the id of the next one.
NoDebugInfo == [attached |-> FALSE, is_stepping |-> FALSE, breakpoints |-> {},
                next_breakpoint_id |-> 0]
NoStepCall == [call |-> "none", result |-> 0]
\* ~Process did not run.  When it ran: what its assertions found.
NotDestroyed == [done |-> FALSE, ports_empty |-> TRUE, deltas_empty |-> TRUE]

\* The threads of other processes that send this one a signal, each its own:
\* sender t sends the signal t.
Senders == 1..NumberOfSenders
IdleSender == [pc |-> "idle", result |-> "none"]

\* Function objects: their size with the byte codes, and Function::kSize,
\* the offset of the first byte code.
FunctionBytes == 32
kFunctionSize == 4
\* No program collection is under way.  chained: the processes are stopped
\* and the stacks chained; cooked: between CookStacks and
\* UncookAndUnchainStacks.  History: the frames before CookStacks, as
\* function and delta, stack by stack, and whether the functions moved.
NoProgramGC ==
    [phase |-> "none", number_of_stacks |-> 0, precooked |-> << >>, moved |-> FALSE]

\* No factory was called since the last collection.
NoResult == [factory |-> "none", result |-> NULL]

\* The static fields of the program, of which every process has a copy.
StaticFields == [i \in 1..NumberOfStatics |-> null_object]

\* The state after Process::Process, part by part.  The heap holds the copy
\* of the static fields.
InitStack ==
    /\ stack_limit = 0
    /\ coroutine_ = "null"
    /\ stack = NoStack
    /\ heap = [space |-> 0,
               top |-> SpaceBase(0) + ObjectBytes(ArrayObject(StaticFields))]
    /\ store_buffer = {}
    /\ objects = (SpaceBase(0) :> ArrayObject(StaticFields))
    /\ statics_ = SpaceBase(0)
    /\ exception_ = null_object
    /\ returned = NoResult
    /\ callers = << >>
    /\ owner = IdleOwner
    /\ setters = [t \in Setters |-> IdleSetter]
    /\ pending = {}
    /\ call = NoCall
\* The stacks are not cooked; the functions are where the program was loaded.
InitCook ==
    /\ cooked_stack_deltas_ = << >>
    /\ functions = [f \in 1..NumberOfFunctions |-> ProgramBase + (f - 1) * FunctionBytes]
    /\ program_gc = NoProgramGC
\* signal_(NULL); every sender holds the one reference to its signal.
InitSignal ==
    /\ signal_ = NULL
    /\ signal_refs = [s \in Senders |-> 1]
    /\ senders = [t \in Senders |-> IdleSender]

\* A new LookupCache: every entry is empty.
InitCache ==
    /\ primary = [i \in 0..(PrimarySize - 1) |-> EmptyEntry]
    /\ secondary = [i \in 0..(SecondarySize - 1) |-> EmptyEntry]
    /\ lookup = NoLookup

\* An empty mailbox; the handle of a dying process is held by its signal.
InitMailbox ==
    /\ messages = << >>
    /\ current_message = 1
    /\ weak_pointers = {}
    /\ foreign_memory = 0
    /\ handle_refs = 1
    /\ merged_heaps = {}
    /\ instances = 0
    /\ native = NoNative
    /\ delivered = << >>
\* No instance is allocated yet and no finalizer has run.
InitFinalizers ==
    /\ foreign_fields = << >>
    /\ garbage = {}
    /\ finalized = [i \in 1..MaxInstances |-> 0]
\* No port exists yet.
InitChannels ==
    /\ channels = << >>
    /\ channel_call = NoChannelCall
\* ports_(NULL) and process_handle_ = new ProcessHandle(this); nothing is
\* linked to the process.
InitLifecycle ==
    /\ ports_ = << >>
    /\ port_process = << >>
    /\ process_handle_ = [refs |-> 1, process |-> "process"]
    /\ links = {}
    /\ signals = << >>
    /\ cleanup = NoCleanup
    /\ destroyed = NotDestroyed
\* debug_info_(NULL)
InitDebug ==
    /\ debug_info_ = NoDebugInfo
    /\ step_call = NoStepCall

Init ==
    /\ InitStack
    /\ InitCook
    /\ InitFinalizers
    /\ InitChannels
    /\ InitLifecycle
    /\ InitDebug
    /\ InitSignal
    /\ InitCache
    /\ InitMailbox

(***************************************************************************)
(* Other threads: Preempt, Profile, DebugInterrupt, each SetStackMarker.   *)
(***************************************************************************)
\* uword stack_limit = stack_limit_;
SetStackMarkerLoad(t, marker) ==
    /\ setters[t].pc = "idle"
    /\ setters' = [setters EXCEPT ![t] =
                      [pc |-> "cas", marker |-> marker, limit |-> stack_limit]]
    /\ UNCHANGED << stack_limit, coroutine_, stack, heap, store_buffer, owner,
                    pending, call >>
    /\ UNCHANGED besidesStack
    /\ UNCHANGED objectVars

Preempt(t) == SetStackMarkerLoad(t, kPreemptMarker)
Profile(t) == SetStackMarkerLoad(t, kProfileMarker)
DebugInterrupt(t) == SetStackMarkerLoad(t, kDebugInterruptMarker)

\* One turn of the loop: compare_exchange_weak, which may fail spuriously.
SetStackMarkerCAS(t) ==
    /\ setters[t].pc = "cas"
    /\ \E spurious \in BOOLEAN :
          IF stack_limit = setters[t].limit /\ ~spurious
          THEN /\ stack_limit' = SetStackMarkerUpdated(setters[t].limit, setters[t].marker)
               /\ setters' = [setters EXCEPT ![t] = IdleSetter]
               /\ pending' = pending \cup {setters[t].marker}
          ELSE /\ setters' = [setters EXCEPT ![t].limit = stack_limit]
               /\ UNCHANGED << stack_limit, pending >>
    /\ UNCHANGED << coroutine_, stack, heap, store_buffer, owner, call >>
    /\ UNCHANGED besidesStack
    /\ UNCHANGED objectVars

(***************************************************************************)
(* The owner thread.                                                       *)
(***************************************************************************)
\* Where the owner goes when UpdateStackLimit is over.
Continuation(o) ==
    IF o.cont = "return" THEN IdleOwner
    ELSE [o EXCEPT !.pc = o.cont, !.cont = "return", !.limit = 0, !.new_limit = 0]
\* UpdateStackLimit up to its compare-exchange: it reads the limit and, when
\* the limit is a real one or the bare sentinel, computes the new one.
UpdateStackLimitLoad(o, st) ==
    IF UpdateStackLimitApplies(stack_limit)
    THEN [o EXCEPT !.pc = "usl_cas", !.limit = stack_limit,
                   !.new_limit = RealStackLimit(st)]
    ELSE Continuation(o)
\* stack_limit_.compare_exchange_strong(current_limit, new_stack_limit)
UpdateStackLimitCAS ==
    /\ owner.pc = "usl_cas"
    /\ stack_limit' = IF stack_limit = owner.limit THEN owner.new_limit ELSE stack_limit
    /\ owner' = Continuation(owner)
    /\ UNCHANGED << coroutine_, stack, heap, store_buffer, setters, pending, call >>
    /\ UNCHANGED besidesStack
    /\ UNCHANGED objectVars

\* NewStack(256), the coroutine, UpdateCoroutine up to the compare-exchange.
SetupExecutionStack ==
    /\ owner.pc = "idle"
    /\ coroutine_ = "null"
    /\ HeapHasRoom(heap, StackBytes(kInitialStackSize))
    /\ LET st == [address |-> heap.top, length |-> kInitialStackSize,
                  top |-> kInitialStackSize, slots |-> << >>, next |-> 0]
       IN  /\ stack' = st
           /\ heap' = [heap EXCEPT !.top = @ + StackBytes(kInitialStackSize)]
           /\ store_buffer' = store_buffer \cup {st.address}
           /\ owner' = UpdateStackLimitLoad(IdleOwner, st)
    /\ coroutine_' = "coroutine"
    /\ call' = NoCall
    /\ UNCHANGED << stack_limit, setters, pending >>
    /\ UNCHANGED besidesStack
    /\ UNCHANGED objectVars

\* The interpreter enters a function: its stack check (one compare of the new
\* stack pointer with the limit) passed, and it pushes a frame.
PushFrame(bcp, locals) ==
    /\ owner.pc = "idle"
    /\ coroutine_ = "coroutine"
    /\ NumberOfFrames(stack) < MaxFrames
    /\ LET base == IF Height(stack) = 0 THEN << NULL, NULL >> ELSE stack.slots
           link == IF Height(stack) = 0 THEN Pointer(stack, stack.length - 2)
                   ELSE Pointer(stack, stack.top)
           new_slots == << link, bcp >> \o locals \o base
           new_top == stack.length - Len(new_slots)
       IN  /\ new_top >= 0
           /\ Pointer(stack, new_top) >= stack_limit
           /\ stack' = [stack EXCEPT !.top = new_top, !.slots = new_slots]
    /\ call' = NoCall
    /\ UNCHANGED << stack_limit, coroutine_, heap, store_buffer, owner, setters, pending >>
    /\ UNCHANGED besidesStack
    /\ UNCHANGED objectVars

\* CollectMutableGarbage up to UpdateStackLimit: the stack is copied to the
\* to-space, the store buffer and the space are replaced.
Scavenge(chaining) ==
    LET to == 1 - heap.space
        start ==
            [from |-> IF coroutine_ = "coroutine"
                      THEN (stack.address :> StackObject(stack)) @@ objects
                      ELSE objects,
             from_space |-> heap.space, to |-> NoObjects, forwarding |-> << >>,
             top |-> SpaceBase(to), chaining |-> chaining,
             stack_address |-> stack.address, number_of_stacks |-> 0,
             roots |-> [statics_ |-> statics_, coroutine_ |-> stack.address,
                        exception_ |-> exception_],
             callers |-> callers]
        \* CollectMutableGarbageAndChainStacks visits the stack of the
        \* current coroutine before the roots.
        order == IF chaining THEN << "coroutine_" >> \o IterateRoots ELSE IterateRoots
    IN  CompleteScavengeMutable(VisitCallers(VisitRoots(start, order, 1), 1),
                                SpaceBase(to))
\* The current stack after the collection.
StackAfter(sc) ==
    IF coroutine_ = "coroutine"
    THEN StackOf(sc.roots.coroutine_, sc.to[sc.roots.coroutine_]) ELSE stack
\* A variant of the replacement below that keeps the store buffer as it is.
StoreBufferNotReplaced(sc) == store_buffer
\* CollectMutableGarbage: StoreBuffer sb, which CompleteScavengeMutable
\* fills, and store_buffer_.ReplaceAfterMutableGC(&sb).
ReplacedStoreBuffer(sc) ==
    ReplaceAfterMutableGC(store_buffer, PointersToProgramSpace(sc.to), sc.forwarding)
\* The process after the collection sc.
CollectInto(sc) ==
        /\ stack' = StackAfter(sc)
        /\ objects' = [a \in DOMAIN sc.to \ {sc.roots.coroutine_} |-> sc.to[a]]
        /\ statics_' = sc.roots.statics_
        /\ exception_' = sc.roots.exception_
        /\ returned' = NoResult
        /\ callers' = sc.callers
        /\ heap' = [space |-> 1 - heap.space, top |-> sc.top]
        /\ store_buffer' = ReplacedStoreBuffer(sc)
Collect == CollectInto(Scavenge(FALSE))
Collected == StackAfter(Scavenge(FALSE))

\* Smi::FromWord and Smi::value: a small integer is held in a word, above a
\* tag bit of 0; value() shifts the word, a signed one, back.
SmiFromWord(value) == (value * 2) % WordModulus
SmiValue(word) ==
    IF word < WordModulus \div 2 THEN word \div 2
    ELSE (word - WordModulus) \div 2

\* A variant of the finalizer below that reports nothing as freed.
FinalizeForeignFreeingNothing(fields) == 0
\* Process::FinalizeForeign: the length read from field 2 of the instance,
\* as a uword, which it reports to FreedForeignMemory.
FinalizeForeign(fields) == SmiValue(fields.length) % WordModulus
\* What the finalizers of the weak pointers ws report as freed, together.
RECURSIVE FreedForeignMemory(_, _)
FreedForeignMemory(ws, fields) ==
    IF ws = {} THEN 0
    ELSE LET w == CHOOSE v \in ws : TRUE
         IN  (IF w.callback = "FinalizeForeign" THEN FinalizeForeign(fields[w.object])
              ELSE 0)
             + FreedForeignMemory(ws \ {w}, fields)
\* Heap::ProcessWeakPointers: the callback of every weak pointer whose
\* object is not alive is invoked, with the heap, and the weak pointer is
\* removed.  FinalizeProcess drops a reference to the handle.
ProcessWeakPointers(alive) ==
    LET dying == {w \in weak_pointers : w.object \notin alive}
    IN  /\ weak_pointers' = weak_pointers \ dying
        /\ foreign_memory' = foreign_memory - FreedForeignMemory(dying, foreign_fields)
        /\ handle_refs' =
              handle_refs - Cardinality({w \in dying : w.callback = "FinalizeProcess"})
        /\ finalized' =
              [i \in DOMAIN finalized |->
                  finalized[i] + Cardinality({w \in dying : w.object = i})]

\* Port::CleanupPorts(from, ports()): a port whose channel has died in the
\* collection has no channel any more.
CleanupPorts(chs, dead) ==
    [port \in DOMAIN chs |-> IF chs[port] \in dead THEN NULL ELSE chs[port]]

\* CollectMutableGarbage: the scavenge, the weak pointers, the ports, the
\* new space and UpdateStackLimit up to its compare-exchange.
CollectMutableGarbage ==
    /\ owner.pc = "idle"
    /\ coroutine_ = "coroutine"
    /\ Collect
    /\ ProcessWeakPointers((1..instances) \ garbage)
    /\ channels' = CleanupPorts(channels, garbage)
    /\ owner' = UpdateStackLimitLoad(IdleOwner, Collected)
    /\ call' = NoCall
    /\ UNCHANGED << stack_limit, coroutine_, setters, pending >>
    /\ UNCHANGED << messages, current_message, merged_heaps, instances, native,
                    delivered, foreign_fields, garbage, channel_call >>
    /\ UNCHANGED besidesCollection

\* HandleStackOverflow: uword current_limit = stack_limit(); and the tests of
\* the markers.
HandleStackOverflow(addition) ==
    /\ owner.pc = "idle"
    /\ coroutine_ = "coroutine"
    /\ LET marker == MarkerToAcknowledge(stack_limit)
       IN  owner' = IF marker # NULL
                    THEN [IdleOwner EXCEPT !.pc = "clear_load", !.marker = marker,
                                           !.addition = addition]
                    ELSE [IdleOwner EXCEPT !.pc = "hso_grow", !.addition = addition]
    /\ call' = [NoCall EXCEPT !.outcome = "running", !.addition = addition,
                              !.entry_limit = stack_limit, !.entry_pending = pending,
                              !.entry_stack = stack]
    /\ UNCHANGED << stack_limit, coroutine_, stack, heap, store_buffer, setters, pending >>
    /\ UNCHANGED besidesStack
    /\ UNCHANGED objectVars

\* ClearStackMarker: uword stack_limit = stack_limit_;
ClearStackMarkerLoad ==
    /\ owner.pc = "clear_load"
    /\ owner' = [owner EXCEPT !.pc = "clear_cas", !.limit = stack_limit]
    /\ UNCHANGED << stack_limit, coroutine_, stack, heap, store_buffer, setters,
                    pending, call >>
    /\ UNCHANGED besidesStack
    /\ UNCHANGED objectVars

\* One turn of ClearStackMarker's loop: the assertion, then
\* compare_exchange_weak.
ClearStackMarkerCAS ==
    /\ owner.pc = "clear_cas"
    /\ IF ~ClearStackMarkerAssertion(owner.limit, owner.marker)
       THEN /\ owner' = [owner EXCEPT !.pc = "assertion_failed"]
            /\ UNCHANGED << stack_limit, pending, call >>
       ELSE \E spurious \in BOOLEAN :
              IF stack_limit = owner.limit /\ ~spurious
              THEN /\ stack_limit' = ClearStackMarkerUpdated(owner.limit, owner.marker)
                   /\ pending' = pending \ {owner.marker}
                   /\ owner' = [owner EXCEPT !.pc = "usl_load", !.limit = 0]
                   /\ call' = [call EXCEPT !.outcome = "ack", !.acked = owner.marker,
                                           !.result = ResultFor(owner.marker)]
              ELSE /\ owner' = [owner EXCEPT !.limit = stack_limit]
                   /\ UNCHANGED << stack_limit, pending, call >>
    /\ UNCHANGED << coroutine_, stack, heap, store_buffer, setters >>
    /\ UNCHANGED besidesStack
    /\ UNCHANGED objectVars

\* UpdateStackLimit after a marker was cleared, up to its compare-exchange.
UpdateStackLimitAfterClear ==
    /\ owner.pc = "usl_load"
    /\ owner' = UpdateStackLimitLoad(owner, stack)
    /\ UNCHANGED << stack_limit, coroutine_, stack, heap, store_buffer, setters,
                    pending, call >>
    /\ UNCHANGED besidesStack
    /\ UNCHANGED objectVars

\* HandleStackOverflow from Stack::cast(new_stack_object) to UpdateStackLimit's
\* compare-exchange: NewStack succeeded at heap.top, the live words are
\* copied, the coroutine gets the new stack.
InstallNewStack(new_size) ==
    LET new_stack == GrowStack(stack, heap.top, new_size)
    IN  /\ stack' = new_stack
        /\ heap' = [heap EXCEPT !.top = @ + StackBytes(new_size)]
        /\ store_buffer' = store_buffer \cup {new_stack.address}
        /\ owner' = UpdateStackLimitLoad([owner EXCEPT !.cont = "return"], new_stack)
        /\ UNCHANGED objectVars

\* HandleStackOverflow with no marker to acknowledge: the new size is more
\* than the platform allows.
HandleStackOverflowRefuse ==
    /\ owner.pc = "hso_grow"
    /\ ExceedsMaxStackSize(NewStackSize(stack.length, owner.addition))
    /\ owner' = IdleOwner
    /\ call' = [call EXCEPT !.outcome = "refused", !.result = "Overflow"]
    /\ UNCHANGED << stack_limit, coroutine_, stack, heap, store_buffer, setters,
                    pending >>
    /\ UNCHANGED besidesStack
    /\ UNCHANGED objectVars

\* The first NewStack(new_size): it succeeds (ok) or returns retry_after_gc,
\* and then CollectMutableGarbage runs.
HandleStackOverflowAllocate(ok) ==
    /\ owner.pc = "hso_grow"
    /\ LET new_size == NewStackSize(stack.length, owner.addition)
       IN  /\ ~ExceedsMaxStackSize(new_size)
           /\ IF ok /\ HeapHasRoom(heap, StackBytes(new_size))
              THEN /\ InstallNewStack(new_size)
                   /\ call' = [call EXCEPT !.outcome = "grew", !.result = "Continue",
                                           !.allocs = Append(@, TRUE)]
              ELSE /\ Collect
                   /\ owner' = UpdateStackLimitLoad(
                                  [owner EXCEPT !.cont = "hso_retry",
                                                !.new_size = new_size], Collected)
                   /\ call' = [call EXCEPT !.allocs = Append(@, FALSE),
                                           !.gcs = @ + 1,
                                           !.gc_after = Len(call.allocs) + 1]
    /\ UNCHANGED << stack_limit, coroutine_, setters, pending >>
    /\ UNCHANGED besidesStack

\* A variant of the step below that collects and tries again for as long as
\* NewStack fails.
HandleStackOverflowRetryAgain(ok) ==
    /\ owner.pc = "hso_retry"
    /\ IF ok /\ HeapHasRoom(heap, StackBytes(owner.new_size))
       THEN /\ InstallNewStack(owner.new_size)
            /\ call' = [call EXCEPT !.outcome = "grew", !.result = "Continue",
                                    !.allocs = Append(@, TRUE)]
       ELSE /\ Collect
            /\ owner' = UpdateStackLimitLoad([owner EXCEPT !.cont = "hso_retry"],
                                             Collected)
            /\ call' = [call EXCEPT !.allocs = Append(@, FALSE), !.gcs = @ + 1]
    /\ UNCHANGED << stack_limit, coroutine_, setters, pending >>
    /\ UNCHANGED besidesStack

\* The second NewStack(new_size), after the collection: it succeeds, or
\* HandleStackOverflow returns kStackCheckOverflow.
HandleStackOverflowRetry(ok) ==
    /\ owner.pc = "hso_retry"
    /\ IF ok /\ HeapHasRoom(heap, StackBytes(owner.new_size))
       THEN /\ InstallNewStack(owner.new_size)
            /\ call' = [call EXCEPT !.outcome = "grew", !.result = "Continue",
                                    !.allocs = Append(@, TRUE)]
       ELSE /\ owner' = IdleOwner
            /\ call' = [call EXCEPT !.outcome = "failed", !.result = "Overflow",
                                    !.allocs = Append(@, FALSE)]
            /\ UNCHANGED << stack, heap, store_buffer >>
            /\ UNCHANGED objectVars
    /\ UNCHANGED << stack_limit, coroutine_, setters, pending >>
    /\ UNCHANGED besidesStack

(***************************************************************************)
(* Spec: the owner thread with all its operations and one other thread.    *)
(***************************************************************************)
Next ==
    \/ Preempt("t1")
    \/ Profile("t1")
    \/ DebugInterrupt("t1")
    \/ SetStackMarkerCAS("t1")
    \/ SetupExecutionStack
    \/ \E f \in PushedFrames : PushFrame(f.bcp, f.locals)
    \/ CollectMutableGarbage
    \/ \E addition \in Additions : HandleStackOverflow(addition)
    \/ ClearStackMarkerLoad
    \/ ClearStackMarkerCAS
    \/ UpdateStackLimitAfterClear
    \/ UpdateStackLimitCAS
    \/ HandleStackOverflowRefuse
    \/ \E ok \in BOOLEAN : HandleStackOverflowAllocate(ok)
    \/ \E ok \in BOOLEAN : HandleStackOverflowRetry(ok)

Spec == Init /\ [][Next]_vars

(***************************************************************************)
(* SpecInterrupts: the owner thread racing with two other threads.  The    *)
(* frames on the stack play no part in the stack limit: the interpreter    *)
(* pushes none here, and HandleStackOverflow is called with one value.     *)
(***************************************************************************)
NextInterrupts ==
    \/ \E t \in Setters : Preempt(t)
    \/ \E t \in Setters : Profile(t)
    \/ \E t \in Setters : DebugInterrupt(t)
    \/ \E t \in Setters : SetStackMarkerCAS(t)
    \/ SetupExecutionStack
    \/ CollectMutableGarbage
    \/ HandleStackOverflow(kInitialStackSize)
    \/ ClearStackMarkerLoad
    \/ ClearStackMarkerCAS
    \/ UpdateStackLimitAfterClear
    \/ UpdateStackLimitCAS
    \/ HandleStackOverflowRefuse
    \/ \E ok \in BOOLEAN : HandleStackOverflowAllocate(ok)
    \/ \E ok \in BOOLEAN : HandleStackOverflowRetry(ok)

SpecInterrupts == Init /\ [][NextInterrupts]_vars

(***************************************************************************)
(* SpecHeap: the factories of arrays and stacks, the stores of the          *)
(* interpreter and the collections of the process heap.                    *)
(***************************************************************************)
\* The lengths the interpreter asks for.
ArrayLengths == {1}
StackLengths == {kInitialStackSize}
\* The values the interpreter stores: a Smi, a string of the shared heap and
\* the object the last factory returned.
StoredValues ==
    {7, SharedString}
        \cup (IF IsHeapObject(returned.result) THEN {returned.result} ELSE {})
\* The arrays the interpreter holds: the static fields, the current exception
\* and the new array.
HeldArrays ==
    {a \in {statics_, exception_, returned.result} :
        a \in DOMAIN objects /\ objects[a].kind = "array"}

\* A variant of the insertion below that leaves the new stack out.
NewStackInsertsNothing(sb, result) == sb
\* NewStack: store_buffer_.Insert(HeapObject::cast(result)).
NewStackInserts(sb, result) == sb \cup {result}

\* Process::NewArray(length): heap()->CreateArray fills the new array with
\* null_object (ok), or returns retry_after_gc.
NewArray(length, ok) ==
    /\ owner.pc = "idle"
    /\ coroutine_ = "coroutine"
    /\ Cardinality(DOMAIN objects) < MaxObjects
    /\ LET array == ArrayObject([i \in 1..length |-> null_object])
       IN  IF ok /\ HeapHasRoom(heap, kArrayHeaderSize + length * kWordSize)
           THEN /\ objects' = (heap.top :> array) @@ objects
                /\ heap' = [heap EXCEPT !.top = @ + ObjectBytes(array)]
                /\ returned' = [factory |-> "NewArray", result |-> heap.top]
           ELSE /\ returned' = [factory |-> "NewArray", result |-> retry_after_gc]
                /\ UNCHANGED << objects, heap >>
    /\ UNCHANGED << stack_limit, coroutine_, stack, store_buffer, owner, setters,
                    pending, call, statics_, exception_, callers >>
    /\ UNCHANGED besidesStack

\* Process::NewStack(length): heap()->CreateStack makes an empty stack (ok),
\* or returns retry_after_gc.
NewStack(length, ok) ==
    /\ owner.pc = "idle"
    /\ coroutine_ = "coroutine"
    /\ Cardinality(DOMAIN objects) < MaxObjects + Len(callers)
    /\ IF ok /\ HeapHasRoom(heap, StackBytes(length))
       THEN /\ objects' = (heap.top :> StackObject([NoStack EXCEPT !.length = length,
                                                                  !.top = length]))
                               @@ objects
            /\ heap' = [heap EXCEPT !.top = @ + StackBytes(length)]
            /\ store_buffer' = NewStackInserts(store_buffer, heap.top)
            /\ returned' = [factory |-> "NewStack", result |-> heap.top]
       ELSE /\ returned' = [factory |-> "NewStack", result |-> retry_after_gc]
            /\ UNCHANGED << objects, heap, store_buffer >>
    /\ UNCHANGED << stack_limit, coroutine_, stack, owner, setters, pending, call,
                    statics_, exception_, callers >>
    /\ UNCHANGED besidesStack

\* The interpreter stores value in a slot of an array, and inserts the array
\* into the store buffer when the value is a pointer to the program heap or
\* the shared heap.
ArrayStore(array, index, value) ==
    /\ owner.pc = "idle"
    /\ coroutine_ = "coroutine"
    /\ array \in HeldArrays
    /\ index \in 1..objects[array].length
    /\ value \in StoredValues
    /\ objects' = [objects EXCEPT ![array].slots[index] = value]
    /\ store_buffer' = IF InProgramSpace(value) THEN store_buffer \cup {array}
                       ELSE store_buffer
    /\ UNCHANGED << stack_limit, coroutine_, stack, heap, owner, setters, pending,
                    call, statics_, exception_, returned, callers >>
    /\ UNCHANGED besidesStack

\* The interpreter throws the object the last factory returned.
Throw ==
    /\ owner.pc = "idle"
    /\ coroutine_ = "coroutine"
    /\ IsHeapObject(returned.result)
    /\ exception_' = returned.result
    /\ UNCHANGED << objects, statics_, returned, callers >>
    /\ UNCHANGED stackVars
    /\ UNCHANGED besidesStack

NextHeap ==
    \/ SetupExecutionStack
    \/ UpdateStackLimitCAS
    \/ \E length \in ArrayLengths, ok \in BOOLEAN : NewArray(length, ok)
    \/ \E length \in StackLengths, ok \in BOOLEAN : NewStack(length, ok)
    \/ \E array \in HeldArrays :
            \E index \in 1..objects[array].length, value \in StoredValues :
                ArrayStore(array, index, value)
    \/ Throw
    \/ CollectMutableGarbage

SpecHeap == Init /\ [][NextHeap]_vars

(***************************************************************************)
(* SpecCook: coroutines with deep stacks and the program collection, which *)
(* chains the stacks of the stopped process, cooks them, may move the      *)
(* functions, and uncooks the stacks.                                      *)
(***************************************************************************)
\* The frames one run of the interpreter pushes: one call, or a recursion
\* deeper than the first stack of a coroutine is long.
Depths == {1, kInitialStackSize + 1}
\* How far the program collection moves the functions.
MoveDistance == NumberOfFunctions * FunctionBytes
\* The interpreter runs while no program collection is under way.
Running == program_gc.phase = "none"

\* Function::bytecode_address_for(0), for the function at address.
BytecodeStart(address) == address + kFunctionSize
\* Function::FromBytecodePointer(bcp): the function whose byte codes hold bcp.
FunctionIndex(bcp) ==
    CHOOSE f \in DOMAIN functions :
        bcp >= BytecodeStart(functions[f]) /\ bcp < functions[f] + FunctionBytes
FromBytecodePointer(bcp) == functions[FunctionIndex(bcp)]
IsFunction(value) == \E f \in DOMAIN functions : functions[f] = value

\* The stacks of the process by address, the current one with them.
TableOf(current, objs) == (current.address :> StackObject(current)) @@ objs
\* The first n stacks of the chain that starts at raw_current.
RECURSIVE ChainedStacks(_, _, _)
ChainedStacks(table, raw_current, n) ==
    IF n = 0 THEN << >>
    ELSE << raw_current >> \o ChainedStacks(table, table[raw_current].next, n - 1)
\* The places in slots of the BCPs that Frame::MovePrevious meets, from the
\* top frame on.
BcpPlaces(st) ==
    LET l == Links(st) IN [j \in 1..(Len(l) - 1) |-> l[j] + 2 - st.top]
\* The slots with the word at places[j] replaced by words[j], for every j.
SlotsWith(slots, places, words) ==
    LET at == [k \in {places[j] : j \in DOMAIN places} |->
                  CHOOSE j \in DOMAIN places : places[j] = k]
    IN  [k \in 1..Len(slots) |-> IF k \in DOMAIN at THEN words[at[k]] ELSE slots[k]]

\* CookStacks, for one stack: frame.SetByteCodePointer(function), and the
\* deltas in the order of the frames.
CookedSlots(st) ==
    LET places == BcpPlaces(st)
        cooked == [j \in DOMAIN places |-> FromBytecodePointer(st.slots[places[j]])]
    IN  SlotsWith(st.slots, places, cooked)
Deltas(st) ==
    LET places == BcpPlaces(st)
    IN  [j \in DOMAIN places |->
            st.slots[places[j]]
                - BytecodeStart(FromBytecodePointer(st.slots[places[j]]))]
FramesOf(st) ==
    LET places == BcpPlaces(st)
    IN  [j \in DOMAIN places |->
            [function |-> FunctionIndex(st.slots[places[j]]),
             delta |-> st.slots[places[j]]
                        - BytecodeStart(FromBytecodePointer(st.slots[places[j]]))]]
\* cooked_stack_deltas_[i] = List<int>::New(stack()->length()), and the
\* stores cooked_stack_deltas_[i][index++] = delta: the list has the length
\* of the current stack, whatever stack it is for; a store at an index that
\* is not less than the length goes beyond the end of the list.
CookedList(length, deltas) ==
    [length |-> length,
     written |-> SubSeq(deltas, 1, IF Len(deltas) < length THEN Len(deltas) ELSE length),
     beyond |-> SubSeq(deltas, length + 1, Len(deltas))]
\* int delta = cooked_stack_deltas_[i][index++]: what was stored, and for an
\* index beyond the end of the list whatever the memory there holds by then:
\* the delta stored (intact) or another word.
DeltaRead(list, j, intact) ==
    IF j <= list.length THEN list.written[j]
    ELSE IF intact THEN list.beyond[j - list.length] ELSE 0
\* UncookAndUnchainStacks, for one stack: the BCPs are rebuilt and next is
\* set to Smi zero.
Uncooked(st, list, intact) ==
    LET places == BcpPlaces(st)
        raw == [j \in DOMAIN places |->
                   BytecodeStart(st.slots[places[j]]) + DeltaRead(list, j, intact)]
    IN  [st EXCEPT !.slots = SlotsWith(st.slots, places, raw), !.next = 0]

\* A coroutine starts to run: the interpreter calls depth times the function
\* whose byte codes hold bcp, and each stack check passes.
\* Every frame is a link to the frame pushed before it and the BCP.
FramesPushed(st, slots, bcp, depth) ==
    LET new_top == st.length - Len(slots) - 2 * depth
    IN  [k \in 1..(2 * depth) |->
            IF k % 2 = 1 THEN Pointer(st, new_top + k + 1) ELSE bcp] \o slots
Recurse(bcp, depth) ==
    /\ owner.pc = "idle"
    /\ coroutine_ = "coroutine"
    /\ Height(stack) = 0
    /\ LET base == << NULL, NULL >>
           new_top == stack.length - Len(base) - 2 * depth
       IN  /\ new_top >= 0
           /\ Pointer(stack, new_top) >= stack_limit
           /\ stack' = [stack EXCEPT !.top = new_top,
                                     !.slots = FramesPushed(stack, base, bcp, depth)]
    /\ call' = NoCall
    /\ UNCHANGED << stack_limit, coroutine_, heap, store_buffer, owner, setters, pending >>
    /\ UNCHANGED besidesStack
    /\ UNCHANGED objectVars

\* A variant of the step below that leaves UpdateStackLimit out.
UpdateCoroutineWithoutLimit ==
    /\ owner.pc = "idle"
    /\ coroutine_ = "coroutine"
    /\ returned.factory = "NewStack"
    /\ IsHeapObject(returned.result)
    /\ Len(callers) < MaxCallers
    /\ LET target == StackOf(returned.result, objects[returned.result])
       IN  /\ stack' = target
           /\ objects' = (stack.address :> StackObject(stack))
                             @@ [a \in DOMAIN objects \ {target.address} |-> objects[a]]
           /\ callers' = << stack.address >> \o callers
           /\ owner' = IdleOwner
           /\ store_buffer' = store_buffer \cup {target.address}
    /\ returned' = NoResult
    /\ call' = NoCall
    /\ UNCHANGED << stack_limit, coroutine_, heap, setters, pending, statics_,
                    exception_ >>
    /\ UNCHANGED besidesStack
\* The interpreter changes to the coroutine of the stack that NewStack has
\* returned: Process::UpdateCoroutine.  The coroutine that ran is the caller
\* of the new one.
UpdateCoroutine ==
    /\ owner.pc = "idle"
    /\ coroutine_ = "coroutine"
    /\ returned.factory = "NewStack"
    /\ IsHeapObject(returned.result)
    /\ Len(callers) < MaxCallers
    /\ LET target == StackOf(returned.result, objects[returned.result])
       IN  /\ stack' = target
           /\ objects' = (stack.address :> StackObject(stack))
                             @@ [a \in DOMAIN objects \ {target.address} |-> objects[a]]
           /\ callers' = << stack.address >> \o callers
           /\ owner' = UpdateStackLimitLoad(IdleOwner, target)
           /\ store_buffer' = store_buffer \cup {target.address}
    /\ returned' = NoResult
    /\ call' = NoCall
    /\ UNCHANGED << stack_limit, coroutine_, heap, setters, pending, statics_,
                    exception_ >>
    /\ UNCHANGED besidesStack

\* Process::CollectGarbageAndChainStacks, called for the stopped process by
\* the program collection, up to UpdateStackLimit's compare-exchange.
CollectGarbageAndChainStacks ==
    /\ owner.pc = "idle"
    /\ coroutine_ = "coroutine"
    /\ program_gc.phase = "none"
    /\ ~program_gc.moved
    /\ LET sc == Scavenge(TRUE)
       IN  /\ CollectInto(sc)
           /\ owner' = UpdateStackLimitLoad(IdleOwner, StackAfter(sc))
           /\ program_gc' = [NoProgramGC EXCEPT !.phase = "chained",
                                                !.number_of_stacks = sc.number_of_stacks]
    /\ call' = NoCall
    /\ UNCHANGED << stack_limit, coroutine_, setters, pending >>
    /\ UNCHANGED << cooked_stack_deltas_, functions >>
    /\ UNCHANGED besidesCook

\* Process::CookStacks(number_of_stacks).
CookStacks ==
    /\ owner.pc = "idle"
    /\ program_gc.phase = "chained"
    /\ LET table == TableOf(stack, objects)
           chain == ChainedStacks(table, stack.address, program_gc.number_of_stacks)
           chained == {chain[i] : i \in DOMAIN chain}
           cooked == [a \in DOMAIN table |->
                        IF a \in chained
                        THEN [table[a] EXCEPT !.slots = CookedSlots(StackOf(a, table[a]))]
                        ELSE table[a]]
       IN  /\ cooked_stack_deltas_' =
                  [i \in DOMAIN chain |->
                      CookedList(stack.length,
                                 Deltas(StackOf(chain[i], table[chain[i]])))]
           /\ stack' = StackOf(stack.address, cooked[stack.address])
           /\ objects' = [a \in DOMAIN objects |-> cooked[a]]
           /\ program_gc' = [program_gc EXCEPT
                                !.phase = "cooked",
                                !.precooked = [a \in chained |->
                                                 FramesOf(StackOf(a, table[a]))]]
    /\ UNCHANGED << stack_limit, coroutine_, heap, store_buffer, owner, setters,
                    pending, call >>
    /\ UNCHANGED << statics_, exception_, returned, callers, functions >>
    /\ UNCHANGED besidesCook

\* The program collection moves the functions and, through
\* IterateProgramPointers, rewrites the pointers to them in the cooked stacks.
MoveFunctions ==
    /\ program_gc.phase = "cooked"
    /\ ~program_gc.moved
    /\ LET table == TableOf(stack, objects)
           moved == [a \in DOMAIN table |->
                       IF table[a].kind = "stack"
                       THEN LET places == BcpPlaces(StackOf(a, table[a]))
                                relocated == [j \in DOMAIN places |->
                                                 table[a].slots[places[j]] + MoveDistance]
                            IN  [table[a] EXCEPT
                                    !.slots = SlotsWith(table[a].slots, places, relocated)]
                       ELSE table[a]]
       IN  /\ stack' = StackOf(stack.address, moved[stack.address])
           /\ objects' = [a \in DOMAIN objects |-> moved[a]]
    /\ functions' = [f \in DOMAIN functions |-> functions[f] + MoveDistance]
    /\ program_gc' = [program_gc EXCEPT !.moved = TRUE]
    /\ UNCHANGED << stack_limit, coroutine_, heap, store_buffer, owner, setters,
                    pending, call >>
    /\ UNCHANGED << statics_, exception_, returned, callers, cooked_stack_deltas_ >>
    /\ UNCHANGED besidesCook

\* Process::UncookAndUnchainStacks.
UncookAndUnchainStacks(intact) ==
    /\ program_gc.phase = "cooked"
    /\ LET table == TableOf(stack, objects)
           chain == ChainedStacks(table, stack.address, Len(cooked_stack_deltas_))
           place == [a \in {chain[i] : i \in DOMAIN chain} |->
                       CHOOSE i \in DOMAIN chain : chain[i] = a]
           uncooked == [a \in DOMAIN table |->
                          IF a \in DOMAIN place
                          THEN StackObject(Uncooked(StackOf(a, table[a]),
                                                    cooked_stack_deltas_[place[a]],
                                                    intact))
                          ELSE table[a]]
       IN  /\ stack' = StackOf(stack.address, uncooked[stack.address])
           /\ objects' = [a \in DOMAIN objects |-> uncooked[a]]
    /\ cooked_stack_deltas_' = << >>
    /\ program_gc' = [program_gc EXCEPT !.phase = "none"]
    /\ UNCHANGED << stack_limit, coroutine_, heap, store_buffer, owner, setters,
                    pending, call >>
    /\ UNCHANGED << statics_, exception_, returned, callers, functions >>
    /\ UNCHANGED besidesCook

NextCook ==
    \/ SetupExecutionStack
    \/ UpdateStackLimitCAS
    \/ Running /\ \E f \in PushedFrames, depth \in Depths : Recurse(f.bcp, depth)
    \/ Running /\ Height(stack) = 0 /\ HandleStackOverflow(kInitialStackSize + 1)
    \/ HandleStackOverflowRefuse
    \/ HandleStackOverflowAllocate(TRUE)
    \/ Running /\ callers = << >> /\ NewStack(kInitialStackSize, TRUE)
    \/ Running /\ callers = << >> /\ UpdateCoroutine
    \/ CollectGarbageAndChainStacks
    \/ CookStacks
    \/ MoveFunctions
    \/ \E intact \in BOOLEAN : UncookAndUnchainStacks(intact)

SpecCook == Init /\ [][NextCook]_vars

(***************************************************************************)
(* SendSignal, called by the threads of other processes.  The sender t     *)
(* sends the signal t.                                                     *)
(***************************************************************************)
\* A variant of the exchange below that expects whatever the slot holds.
SendSignalExchangesAnything(current, spurious) == ~spurious
\* A variant of the exchange below that expects a taken slot.
SendSignalExchangesTaken(current, spurious) == current # NULL /\ ~spurious
\* Signal* expected = NULL; signal_.compare_exchange_weak(expected, signal):
\* whether it stores the signal over the current content of the slot.
SendSignalExchanges(current, spurious) == current = NULL /\ ~spurious

\* SendSignal with an if in the place of the while: after a compare-exchange
\* that failed the signal is decremented without another look at the slot.
SendSignalLoadOnce(t) ==
    /\ senders[t].pc \in {"idle", "load"}
    /\ IF signal_ = NULL /\ senders[t].pc = "idle"
       THEN /\ senders' = [senders EXCEPT ![t].pc = "cas"]
            /\ UNCHANGED signal_refs
       ELSE /\ senders' = [senders EXCEPT ![t] = [pc |-> "done", result |-> "rejected"]]
            /\ signal_refs' = [signal_refs EXCEPT ![t] = @ - 1]
    /\ UNCHANGED signal_
    /\ UNCHANGED besidesSignal
\* The head of the loop, signal_.load() == NULL; when the slot is taken,
\* Signal::DecrementRef(signal) and the call is over.
SendSignalLoad(t) ==
    /\ senders[t].pc \in {"idle", "load"}
    /\ IF signal_ = NULL
       THEN /\ senders' = [senders EXCEPT ![t].pc = "cas"]
            /\ UNCHANGED signal_refs
       ELSE /\ senders' = [senders EXCEPT ![t] = [pc |-> "done", result |-> "rejected"]]
            /\ signal_refs' = [signal_refs EXCEPT ![t] = @ - 1]
    /\ UNCHANGED signal_
    /\ UNCHANGED besidesSignal

\* The compare-exchange: the call returns when it stored the signal.
SendSignalCAS(t) ==
    /\ senders[t].pc = "cas"
    /\ \E spurious \in BOOLEAN :
          IF SendSignalExchanges(signal_, spurious)
          THEN /\ signal_' = t
               /\ senders' = [senders EXCEPT ![t] = [pc |-> "done", result |-> "installed"]]
          ELSE /\ senders' = [senders EXCEPT ![t].pc = "load"]
               /\ UNCHANGED signal_
    /\ UNCHANGED signal_refs
    /\ UNCHANGED besidesSignal

NextSignal ==
    \/ \E t \in Senders : SendSignalLoad(t)
    \/ \E t \in Senders : SendSignalCAS(t)

SpecSignal == Init /\ [][NextSignal]_vars

(***************************************************************************)
(* The lookup cache and LookupEntrySlow.  The program: its classes, their  *)
(* methods and the intrinsics.                                             *)
(***************************************************************************)
Classes == 1..NumberOfClasses
Selectors == 1..NumberOfSelectors
\* Selector::Encode(Names::kNoSuchMethodTrampoline, Selector::METHOD, 0)
TrampolineSelector == 0
\* The function of a class for a selector, in the program space.
FunctionOf(clazz, selector) == ProgramBase + 64 * clazz + 8 * selector
\* Class::LookupMethod: every class has the trampoline; of the other
\* selectors a class implements some.
LookupMethod(clazz, selector) ==
    IF selector = TrampolineSelector \/ (clazz + selector) % 3 # 0
    THEN FunctionOf(clazz, selector) ELSE NULL
\* Function::ComputeIntrinsic: the address of the intrinsic, NULL for none.
IntrinsicsBase == 4096
ComputeIntrinsic(target) ==
    IF (target \div 8) % 2 = 1 THEN IntrinsicsBase + target ELSE NULL
\* LookupCache::ComputePrimaryIndex and ComputeSecondaryIndex.
ComputePrimaryIndex(clazz, selector) == (clazz + selector) % PrimarySize
ComputeSecondaryIndex(clazz, selector) == (2 * clazz + selector) % SecondarySize
\* LookupCache::DemotePrimary: the primary entry is copied to the secondary
\* table, at the index of its own class and selector.
DemotePrimary(sec, entry) ==
    [sec EXCEPT ![ComputeSecondaryIndex(entry.clazz, entry.selector)] = entry]

\* Variants of the computations below, each with one slip.
\* The tag without the test for a missing intrinsic.
IntrinsicTagUnchecked(intrinsic) == intrinsic
\* LookupEntrySlow that demotes the primary entry after overwriting it.
LookupEntrySlowDemotingLate(prim, sec, p, clazz, selector, resolved) ==
    [primary |-> [prim EXCEPT ![p] = resolved],
     secondary |-> DemotePrimary(sec, resolved)]

\* LookupEntrySlow that looks at the secondary entry at the primary index.
SecondaryHitAtPrimaryIndex(sec, clazz, selector) ==
    LET entry == sec[ComputePrimaryIndex(clazz, selector) % SecondarySize]
    IN  entry.clazz = clazz /\ entry.selector = selector
\* LookupEntrySlow that compares the selector of the secondary entry alone.
SecondaryHitOnSelector(sec, clazz, selector) ==
    LET entry == sec[ComputeSecondaryIndex(clazz, selector)]
    IN  entry.selector = selector
\* tag = (intrinsic == NULL) ? 1 : reinterpret_cast<uword>(intrinsic)
IntrinsicTag(intrinsic) == IF intrinsic = NULL THEN 1 ELSE intrinsic
\* LookupEntrySlow: whether the secondary entry is the one looked for.
SecondaryHit(sec, clazz, selector) ==
    LET entry == sec[ComputeSecondaryIndex(clazz, selector)]
    IN  entry.clazz = clazz /\ entry.selector = selector
\* LookupEntrySlow: the entry it makes when the secondary table misses.
Resolve(clazz, selector) ==
    LET target == LookupMethod(clazz, selector)
    IN  IF target = NULL
        THEN Entry(clazz, selector, LookupMethod(clazz, TrampolineSelector), 0)
        ELSE Entry(clazz, selector, target, IntrinsicTag(ComputeIntrinsic(target)))
\* LookupEntrySlow: the two tables after cache->DemotePrimary(primary) and
\* the four stores to the primary entry.
LookupEntrySlowTables(prim, sec, p, clazz, selector, resolved) ==
    [primary |-> [prim EXCEPT ![p] = resolved],
     secondary |-> DemotePrimary(sec, prim[p])]

\* The interpreter missed the primary entry p of (clazz, selector) and calls
\* LookupEntrySlow(p, clazz, selector).
LookupEntrySlow(p, clazz, selector) ==
    /\ p = ComputePrimaryIndex(clazz, selector)
    /\ ~(primary[p].clazz = clazz /\ primary[p].selector = selector)
    /\ IF SecondaryHit(secondary, clazz, selector)
       THEN /\ lookup' = [returned |-> "secondary", p |-> p, clazz |-> clazz,
                          selector |-> selector, old |-> primary[p],
                          index |-> ComputeSecondaryIndex(clazz, selector)]
            /\ UNCHANGED << primary, secondary >>
       ELSE LET tables == LookupEntrySlowTables(primary, secondary, p, clazz,
                                                selector, Resolve(clazz, selector))
            IN  /\ primary' = tables.primary
                /\ secondary' = tables.secondary
                /\ lookup' = [returned |-> "primary", p |-> p, clazz |-> clazz,
                              selector |-> selector, old |-> primary[p],
                              index |-> p]
    /\ UNCHANGED besidesCache

NextLookup ==
    \E clazz \in Classes, selector \in Selectors :
        LookupEntrySlow(ComputePrimaryIndex(clazz, selector), clazz, selector)

SpecLookup == Init /\ [][NextLookup]_vars

(***************************************************************************)
(* The mailbox and the native ProcessQueueGetMessage.                      *)
(***************************************************************************)
\* Another process sends a message to a port of this one: it is enqueued
\* behind the others.
EnqueueTo(port, kind, size) ==
    /\ Len(messages) < MaxMessages
    /\ messages' = Append(messages, [kind |-> kind, size |-> size, port |-> port])
    /\ UNCHANGED << current_message, weak_pointers, foreign_memory, handle_refs,
                    merged_heaps, instances, native, delivered >>
    /\ UNCHANGED finalizerVars
    /\ UNCHANGED besidesMailbox
\* A message whose port does not matter.
Enqueue(kind) == EnqueueTo(NULL, kind, ForeignSize)

\* What the native does but for advancing the mailbox.
Unchanged(result, allocated) ==
    [result |-> result, allocated |-> allocated, finalizer |-> "none",
     foreign |-> 0, increment_ref |-> 0, merge |-> FALSE]
\* A variant of the switch below that takes the reference to the handle
\* before the death notification is allocated.
MaterializeCountingEarly(kind, size, ok1, ok2) ==
    CASE kind \in {"IMMEDIATE", "IMMUTABLE_OBJECT"} -> Unchanged("value", 0)
      [] kind \in {"FOREIGN", "FOREIGN_FINALIZED"} ->
            IF ~ok1 THEN Unchanged("retry_after_gc", 0)
            ELSE IF kind = "FOREIGN_FINALIZED"
            THEN [Unchanged("foreign", 1) EXCEPT !.finalizer = "FinalizeForeign",
                                                 !.foreign = size]
            ELSE Unchanged("foreign", 1)
      [] kind = "LARGE_INTEGER" ->
            IF ~ok1 THEN Unchanged("retry_after_gc", 0) ELSE Unchanged("integer", 1)
      [] kind = "EXIT" -> [Unchanged("exit", 0) EXCEPT !.merge = TRUE]
      [] kind = "PROCESS_DEATH_SIGNAL" ->
            IF ~ok1 THEN Unchanged("retry_after_gc", 0)
            ELSE IF ~ok2
            THEN [Unchanged("retry_after_gc", 1) EXCEPT !.increment_ref = 1]
            ELSE [Unchanged("process_death", 2) EXCEPT !.increment_ref = 1,
                                                      !.finalizer = "FinalizeProcess"]
\* A variant of the switch below that registers the finalizer of the process
\* object before the death notification is allocated.
MaterializeRegisteringEarly(kind, size, ok1, ok2) ==
    CASE kind \in {"IMMEDIATE", "IMMUTABLE_OBJECT"} -> Unchanged("value", 0)
      [] kind \in {"FOREIGN", "FOREIGN_FINALIZED"} ->
            IF ~ok1 THEN Unchanged("retry_after_gc", 0)
            ELSE IF kind = "FOREIGN_FINALIZED"
            THEN [Unchanged("foreign", 1) EXCEPT !.finalizer = "FinalizeForeign",
                                                 !.foreign = size]
            ELSE Unchanged("foreign", 1)
      [] kind = "LARGE_INTEGER" ->
            IF ~ok1 THEN Unchanged("retry_after_gc", 0) ELSE Unchanged("integer", 1)
      [] kind = "EXIT" -> [Unchanged("exit", 0) EXCEPT !.merge = TRUE]
      [] kind = "PROCESS_DEATH_SIGNAL" ->
            IF ~ok1 THEN Unchanged("retry_after_gc", 0)
            ELSE IF ~ok2
            THEN [Unchanged("retry_after_gc", 1) EXCEPT !.finalizer = "FinalizeProcess"]
            ELSE [Unchanged("process_death", 2) EXCEPT !.increment_ref = 1,
                                                      !.finalizer = "FinalizeProcess"]
\* The switch over the kind of the current message: the result, the number
\* of instances allocated, the finalizer registered, the foreign memory
\* reported, the reference taken and the heaps merged.  ok1 and ok2 tell
\* whether the first and the second allocation succeed.
Materialize(kind, size, ok1, ok2) ==
    CASE kind \in {"IMMEDIATE", "IMMUTABLE_OBJECT"} -> Unchanged("value", 0)
      [] kind \in {"FOREIGN", "FOREIGN_FINALIZED"} ->
            IF ~ok1 THEN Unchanged("retry_after_gc", 0)
            ELSE IF kind = "FOREIGN_FINALIZED"
            THEN [Unchanged("foreign", 1) EXCEPT !.finalizer = "FinalizeForeign",
                                                 !.foreign = size]
            ELSE Unchanged("foreign", 1)
      [] kind = "LARGE_INTEGER" ->
            IF ~ok1 THEN Unchanged("retry_after_gc", 0) ELSE Unchanged("integer", 1)
      [] kind = "EXIT" -> [Unchanged("exit", 0) EXCEPT !.merge = TRUE]
      [] kind = "PROCESS_DEATH_SIGNAL" ->
            IF ~ok1 THEN Unchanged("retry_after_gc", 0)
            ELSE IF ~ok2 THEN Unchanged("retry_after_gc", 1)
            ELSE [Unchanged("process_death", 2) EXCEPT !.increment_ref = 1,
                                                      !.finalizer = "FinalizeProcess"]

\* NATIVE(ProcessQueueGetMessage), called when the mailbox has a current
\* message.  The finalizer is registered for the first instance allocated.
ProcessQueueGetMessage(ok1, ok2) ==
    /\ current_message <= Len(messages)
    /\ instances + 2 <= MaxInstances
    /\ LET queue == messages[current_message]
           did == Materialize(queue.kind, queue.size, ok1, ok2)
       IN  /\ instances' = instances + did.allocated
           /\ weak_pointers' =
                 IF did.finalizer = "none" THEN weak_pointers
                 ELSE weak_pointers \cup {[object |-> instances + 1,
                                           callback |-> did.finalizer]}
           /\ foreign_memory' = foreign_memory + did.foreign
           /\ handle_refs' = handle_refs + did.increment_ref
           /\ merged_heaps' = IF did.merge THEN merged_heaps \cup {current_message}
                              ELSE merged_heaps
           \* Instance::cast(process_death)->SetInstanceField(0, dart_process)
           /\ native' = [kind |-> queue.kind, result |-> did.result,
                         message |-> current_message,
                         field0 |-> IF did.result = "process_death"
                                    THEN instances + 1 ELSE NULL]
           \* foreign->SetInstanceField(2, Smi::FromWord(size))
           /\ foreign_fields' =
                 IF did.result = "foreign"
                 THEN ((instances + 1) :> [length |-> SmiFromWord(queue.size),
                                           message |-> current_message])
                      @@ foreign_fields
                 ELSE foreign_fields
           /\ IF did.result = "retry_after_gc"
              THEN UNCHANGED << current_message, delivered >>
              ELSE /\ current_message' = current_message + 1
                   /\ delivered' = Append(delivered, current_message)
    /\ UNCHANGED << messages, garbage, finalized >>
    /\ UNCHANGED besidesMailbox

NextMailbox ==
    \/ \E kind \in MessageKinds : Enqueue(kind)
    \/ \E ok1 \in BOOLEAN, ok2 \in BOOLEAN : ProcessQueueGetMessage(ok1, ok2)

SpecMailbox == Init /\ [][NextMailbox]_vars

(***************************************************************************)
(* The debugger: PrepareStepOver and PrepareStepOut (SpecDebug).           *)
(***************************************************************************)
\* The byte codes of a function, the same for every function: the opcode
\* and the operand at the offset of each instruction.  The operand of an
\* invoke of a method is a selector, that of a static invoke the index of
\* the method and that of an unfolded one the constant: the function.
Selector(id, arity) == id * 256 + arity
Code ==
    (0 :> [opcode |-> "kInvokeMethod", operand |-> Selector(1, 2)]) @@
    (5 :> [opcode |-> "kInvokeStatic", operand |-> 2]) @@
    (10 :> [opcode |-> "kInvokeFactoryUnfold", operand |-> 1]) @@
    (15 :> [opcode |-> "kInvokeNoSuchMethod", operand |-> Selector(2, 1)]) @@
    (20 :> [opcode |-> "kInvokeEq", operand |-> Selector(3, 1)]) @@
    (25 :> [opcode |-> "kLoadLocal0", operand |-> 0])
\* The locals and arguments a frame holds.
Locals == {<< 3 >>, << 3, 5 >>}
\* DebugInfo::kNoBreakpointId
kNoBreakpointId == -1

\* *current_bcp and Utils::ReadInt32(current_bcp + 1)
InstructionAt(bcp) == Code[bcp - BytecodeStart(FromBytecodePointer(bcp))]
\* Bytecode::IsInvokeVariant, Bytecode::Size and Bytecode::StackDiff
IsInvokeVariant(opcode) == opcode # "kLoadLocal0"
BytecodeSize(opcode) == IF IsInvokeVariant(opcode) THEN 5 ELSE 1
BytecodeStackDiff(opcode) == IF opcode = "kInvokeEq" THEN -1 ELSE 1
\* Selector::ArityField::decode(selector)
ArityField(selector) == selector % 256
\* Function::arity(), for the function at address, and
\* program()->static_method_at(method), Function::ConstantForBytecode.
FunctionArity(address) ==
    (CHOOSE f \in DOMAIN functions : functions[f] = address) % 3
StaticMethodAt(method) == functions[((method - 1) % NumberOfFunctions) + 1]
ConstantForBytecode(constant) == functions[((constant - 1) % NumberOfFunctions) + 1]

\* A variant of the switch below with the stack difference of a method
\* invoke for the static invokes too.
StackDiffOfMethods(opcode, operand) ==
    IF opcode \in {"kInvokeMethodUnfold", "kInvokeNoSuchMethod", "kInvokeMethod"}
    THEN - ArityField(operand)
    ELSE IF opcode \in {"kInvokeStatic", "kInvokeFactory"}
    THEN - FunctionArity(StaticMethodAt(operand))
    ELSE IF opcode \in {"kInvokeStaticUnfold", "kInvokeFactoryUnfold"}
    THEN - FunctionArity(ConstantForBytecode(operand))
    ELSE BytecodeStackDiff(opcode)
\* PrepareStepOver: the switch over the opcode that gives stack_diff.
StackDiffOf(opcode, operand) ==
    IF opcode \in {"kInvokeMethodUnfold", "kInvokeNoSuchMethod", "kInvokeMethod"}
    THEN - ArityField(operand)
    ELSE IF opcode \in {"kInvokeStatic", "kInvokeFactory"}
    THEN 1 - FunctionArity(StaticMethodAt(operand))
    ELSE IF opcode \in {"kInvokeStaticUnfold", "kInvokeFactoryUnfold"}
    THEN 1 - FunctionArity(ConstantForBytecode(operand))
    ELSE BytecodeStackDiff(opcode)

\* EnsureDebuggerAttached
EnsureDebuggerAttached(info) == IF info.attached THEN info ELSE [info EXCEPT !.attached = TRUE]
\* DebugInfo::SetBreakpoint(function, bytecode_index, one_shot, coroutine,
\* stack_height): the breakpoint is added and its id returned.
SetBreakpoint(info, function, bytecode_index, one_shot, coroutine, stack_height) ==
    [info EXCEPT !.breakpoints =
                    @ \cup {[id |-> info.next_breakpoint_id, function |-> function,
                             bytecode_index |-> bytecode_index,
                             is_one_shot |-> one_shot, coroutine |-> coroutine,
                             stack_height |-> stack_height]},
                 !.next_breakpoint_id = @ + 1]

\* The debugger has stopped the process: no breakpoint of a step is
\* installed yet and the process is not stepping.
Stopped ==
    /\ owner.pc = "idle"
    /\ coroutine_ = "coroutine"
    /\ debug_info_.breakpoints = {}
    /\ ~debug_info_.is_stepping

\* PrepareStepOver, with a frame on the stack.
PrepareStepOver ==
    /\ Stopped
    /\ NumberOfFrames(stack) >= 1
    /\ LET info == EnsureDebuggerAttached(debug_info_)
           current_bcp == Frames(stack)[1].bcp
           opcode == InstructionAt(current_bcp).opcode
       IN  IF ~IsInvokeVariant(opcode)
           THEN /\ debug_info_' = [info EXCEPT !.is_stepping = TRUE]
                /\ step_call' = [call |-> "PrepareStepOver", result |-> kNoBreakpointId]
           ELSE LET stack_diff == StackDiffOf(opcode, InstructionAt(current_bcp).operand)
                    function == FromBytecodePointer(current_bcp)
                    frame_end == stack.top - stack_diff + 2
                    stack_height == stack.length - frame_end
                    bytecode_index ==
                        current_bcp + BytecodeSize(opcode) - BytecodeStart(function)
                IN  /\ debug_info_' = SetBreakpoint(info, function, bytecode_index, TRUE,
                                                    coroutine_, stack_height)
                    /\ step_call' = [call |-> "PrepareStepOver",
                                     result |-> info.next_breakpoint_id]
    /\ UNCHANGED stackVars
    /\ UNCHANGED besidesDebug

\* A variant of the frame end below that leaves the arguments of the callee
\* on the stack.
StepOutFrameEndWithArguments(frame_bottom, arity) == frame_bottom
\* PrepareStepOut: expected_sp - stack()->Pointer(0), in words, with
\* expected_sp = frame_bottom + callee->arity().
StepOutFrameEnd(frame_bottom, arity) == frame_bottom + arity
\* PrepareStepOut, with two frames on the stack at least (its assertions).
PrepareStepOut ==
    /\ Stopped
    /\ NumberOfFrames(stack) >= 2
    /\ LET info == EnsureDebuggerAttached(debug_info_)
           \* frame.FramePointer() + 1, as an index, after one MovePrevious
           frame_bottom == Links(stack)[2] + 1
           callee == FromBytecodePointer(Frames(stack)[1].bcp)
           \* after the second MovePrevious
           caller_bcp == Frames(stack)[2].bcp
           caller == FromBytecodePointer(caller_bcp)
           bytecode_index == caller_bcp - BytecodeStart(caller)
           frame_end == StepOutFrameEnd(frame_bottom, FunctionArity(callee))
           stack_height == stack.length - frame_end
       IN  /\ debug_info_' = SetBreakpoint(info, caller, bytecode_index, TRUE,
                                           coroutine_, stack_height)
           /\ step_call' = [call |-> "PrepareStepOut", result |-> info.next_breakpoint_id]
    /\ UNCHANGED stackVars
    /\ UNCHANGED besidesDebug

\* The interpreter calls a function: the frame pushed is at an instruction
\* of the function.
NextDebug ==
    \/ SetupExecutionStack
    \/ UpdateStackLimitCAS
    \/ /\ Stopped
       /\ \E f \in DOMAIN functions, offset \in DOMAIN Code, locals \in Locals :
              PushFrame(BytecodeStart(functions[f]) + offset, locals)
    \/ PrepareStepOver
    \/ PrepareStepOut

SpecDebug == Init /\ [][NextDebug]_vars

(***************************************************************************)
(* The end of the process: its ports, its links, Cleanup and ~Process      *)
(* (SpecCleanup).                                                          *)
(***************************************************************************)
\* The ports the process creates, the processes that link to it or monitor
\* it, and Signal::Kind.
Ports == 1..NumberOfPorts
Processes == {"p1", "p2"}
SignalKinds == {"kTerminated", "kUncaughtException"}
\* The channel of a port: an instance of the process heap, named here by
\* where it was allocated.
ChannelOf(port) == SpaceBase(0) + 4096 + port * kWordSize
\* The process exists.
Alive == ~destroyed.done

\* The members of a set of processes, one after the other.
RECURSIVE InOrder(_)
InOrder(S) ==
    IF S = {} THEN << >>
    ELSE LET first == CHOOSE q \in S : \A r \in S : q = "p1" \/ r # "p1"
         IN  << first >> \o InOrder(S \ {first})
\* Links::NotifyLinkedProcesses(handle, kind): a signal of the kind to every
\* linked process; Links::NotifyMonitors(handle): one to every monitor.
NotifyLinkedProcesses(ls, kind) ==
    LET to == InOrder({l.process : l \in {k \in ls : ~k.monitor}})
    IN  [i \in DOMAIN to |-> [to |-> to[i], kind |-> kind, monitor |-> FALSE]]
NotifyMonitors(ls) ==
    LET to == InOrder({l.process : l \in {k \in ls : k.monitor}})
    IN  [i \in DOMAIN to |-> [to |-> to[i], kind |-> "monitor", monitor |-> TRUE]]

\* The process creates a port: the port refers to the process and to its
\* channel and is the new head of the list.
NewPort(port) ==
    /\ cleanup.pc = "none"
    /\ port \notin DOMAIN port_process
    /\ ports_' = << port >> \o ports_
    /\ port_process' = (port :> [process |-> "process", terminating |-> 0]) @@ port_process
    /\ channels' = (port :> ChannelOf(port)) @@ channels
    /\ UNCHANGED << process_handle_, links, signals, cleanup, destroyed, channel_call >>
    /\ UNCHANGED << mailboxVars, finalizerVars, debugVars >>
    /\ UNCHANGED << stackVars, objectVars, cookVars, signalVars, cacheVars >>

\* Another process links to this one, or monitors it, through the handle:
\* it fails when the handle has no process any more.
Link(process, monitor) ==
    /\ process_handle_.process # "null"
    /\ [process |-> process, monitor |-> monitor] \notin links
    /\ links' = links \cup {[process |-> process, monitor |-> monitor]}
    /\ UNCHANGED << ports_, port_process, process_handle_, signals, cleanup, destroyed >>
    /\ UNCHANGED << mailboxVars, finalizerVars >>
    /\ UNCHANGED besidesLifecycle

\* Cleanup(kind) up to its loop: event_handler->ReceiverForPortsDied(ports_),
\* which is told the list of the ports.
CleanupEnter(kind) ==
    /\ owner.pc = "idle"
    /\ cleanup.pc = "none"
    /\ cleanup' = [pc |-> "ports", kind |-> kind, told |-> ports_]
    /\ UNCHANGED << ports_, port_process, process_handle_, links, signals, destroyed >>
    /\ UNCHANGED << mailboxVars, finalizerVars >>
    /\ UNCHANGED besidesLifecycle
\* A variant of the turn of the loop below that goes on from the port it
\* has just detached.
CleanupPortsKeepingHead(ps) == ps
\* ports_ = next, with next = ports_->next() read before the call.
CleanupPortsAdvance(ps) == Tail(ps)
\* One turn of the loop: Port* next = ports_->next();
\* ports_->OwnerProcessTerminating(); ports_ = next.
CleanupPort ==
    /\ cleanup.pc = "ports"
    /\ ports_ # << >>
    /\ port_process' = [port_process EXCEPT ![Head(ports_)] =
                           [process |-> "null", terminating |-> @.terminating + 1]]
    /\ ports_' = CleanupPortsAdvance(ports_)
    /\ UNCHANGED << process_handle_, links, signals, cleanup, destroyed >>
    /\ UNCHANGED << mailboxVars, finalizerVars >>
    /\ UNCHANGED besidesLifecycle
\* A variant of the step below that leaves the loop without marking the
\* handle.
CleanupHandleUnmarked ==
    /\ cleanup.pc = "ports"
    /\ ports_ = << >>
    /\ cleanup' = [cleanup EXCEPT !.pc = "notify"]
    /\ UNCHANGED << ports_, port_process, process_handle_, links, signals, destroyed >>
    /\ UNCHANGED << mailboxVars, finalizerVars >>
    /\ UNCHANGED besidesLifecycle
\* After the loop: process_handle_->OwnerProcessTerminating().
CleanupHandle ==
    /\ cleanup.pc = "ports"
    /\ ports_ = << >>
    /\ process_handle_' = [process_handle_ EXCEPT !.process = "null"]
    /\ cleanup' = [cleanup EXCEPT !.pc = "notify"]
    /\ UNCHANGED << ports_, port_process, links, signals, destroyed >>
    /\ UNCHANGED << mailboxVars, finalizerVars >>
    /\ UNCHANGED besidesLifecycle
\* links()->NotifyLinkedProcesses(process_handle(), kind), and Cleanup
\* returns.
CleanupNotify ==
    /\ cleanup.pc = "notify"
    /\ signals' = signals \o NotifyLinkedProcesses(links, cleanup.kind)
    /\ cleanup' = [cleanup EXCEPT !.pc = "done"]
    /\ UNCHANGED << ports_, port_process, process_handle_, links, destroyed >>
    /\ UNCHANGED << mailboxVars, finalizerVars >>
    /\ UNCHANGED besidesLifecycle

\* Process::~Process, when the process does not run and is in no program
\* collection: the assertions, the monitors, the references to the handle
\* and to the signal, and the weak pointers of a heap of which nothing is
\* alive any more.
Destroy ==
    /\ Alive
    /\ owner.pc = "idle"
    /\ cleanup.pc \in {"none", "done"}
    /\ destroyed' = [done |-> TRUE, ports_empty |-> ports_ = << >>,
                     deltas_empty |-> cooked_stack_deltas_ = << >>]
    /\ signals' = signals \o NotifyMonitors(links)
    /\ process_handle_' = [process_handle_ EXCEPT !.refs = @ - 1]
    /\ signal_refs' = IF signal_ # NULL THEN [signal_refs EXCEPT ![signal_] = @ - 1]
                      ELSE signal_refs
    /\ ProcessWeakPointers({})
    /\ debug_info_' = NoDebugInfo
    /\ UNCHANGED << signal_, senders, step_call >>
    /\ UNCHANGED << messages, current_message, merged_heaps, instances, native,
                    delivered, foreign_fields, garbage >>
    /\ UNCHANGED << ports_, port_process, links, cleanup >>
    /\ UNCHANGED << stackVars, objectVars, cookVars, cacheVars, channelVars >>

NextCleanup ==
    \/ Alive /\ \E port \in Ports : NewPort(port)
    \/ Alive /\ \E process \in Processes, monitor \in BOOLEAN : Link(process, monitor)
    \/ Alive /\ \E kind \in SignalKinds : CleanupEnter(kind)
    \/ Alive /\ CleanupPort
    \/ Alive /\ CleanupHandle
    \/ Alive /\ CleanupNotify
    \/ Destroy

SpecCleanup == Init /\ [][NextCleanup]_vars

(***************************************************************************)
(* The channels of the ports and the native ProcessQueueGetChannel         *)
(* (SpecChannel).                                                          *)
(***************************************************************************)
\* The program drops its last reference to the channel of a port.
DropChannel(port) ==
    /\ port \in DOMAIN channels
    /\ channels[port] # NULL
    /\ channels[port] \notin garbage
    /\ garbage' = garbage \cup {channels[port]}
    /\ UNCHANGED << foreign_fields, finalized >>
    /\ UNCHANGED mailboxVars
    /\ UNCHANGED besidesMailbox

\* A variant of the loop below that advances past the message whose channel
\* it returns.
GetChannelTakingMessage(queue) ==
    LET RECURSIVE Loop(_)
        Loop(i) ==
            IF i > Len(messages) THEN i
            ELSE IF channels[messages[i].port] # NULL THEN i + 1
            ELSE Loop(i + 1)
    IN  Loop(queue)
\* The loop of ProcessQueueGetChannel, from the current message queue: the
\* message it ends at, Len(messages) + 1 standing for queue == NULL.
GetChannelLoop(queue) ==
    LET RECURSIVE Loop(_)
        Loop(i) ==
            IF i > Len(messages) THEN i
            ELSE IF channels[messages[i].port] # NULL THEN i
            ELSE Loop(i + 1)
    IN  Loop(queue)
\* NATIVE(ProcessQueueGetChannel): the channel of the message the loop ends
\* at, or the null object.
ProcessQueueGetChannel ==
    /\ owner.pc = "idle"
    /\ LET queue == GetChannelLoop(current_message)
       IN  /\ current_message' = queue
           /\ delivered' = delivered
           /\ channel_call' =
                 [result |-> IF queue > Len(messages) THEN null_object
                             ELSE channels[messages[queue].port],
                  entry |-> current_message,
                  dropped |-> queue - current_message]
    /\ UNCHANGED << messages, weak_pointers, foreign_memory, handle_refs,
                    merged_heaps, instances, native, channels >>
    /\ UNCHANGED besidesChannel

NextChannel ==
    \/ \E port \in Ports : NewPort(port)
    \/ \E port \in DOMAIN channels : EnqueueTo(port, "IMMEDIATE", ForeignSize)
    \/ \E port \in Ports : DropChannel(port)
    \/ ProcessQueueGetChannel
    \/ ProcessQueueGetMessage(TRUE, TRUE)
    \/ SetupExecutionStack
    \/ UpdateStackLimitCAS
    \/ CollectMutableGarbage

SpecChannel == Init /\ [][NextChannel]_vars

(***************************************************************************)
(* Foreign memory: the instances made for the messages, their finalizers,  *)
(* collections and the end of the process (SpecForeign).                   *)
(***************************************************************************)
\* The byte lengths of the buffers sent.
ForeignSizes == {ForeignSize, 128}

\* The program drops its last reference to an instance.
Drop(instance) ==
    /\ instance \in (1..instances) \ garbage
    /\ garbage' = garbage \cup {instance}
    /\ UNCHANGED << foreign_fields, finalized >>
    /\ UNCHANGED mailboxVars
    /\ UNCHANGED besidesMailbox

NextForeign ==
    \/ Alive /\ \E kind \in {"FOREIGN", "FOREIGN_FINALIZED"}, size \in ForeignSizes :
                  EnqueueTo(NULL, kind, size)
    \/ Alive /\ \E ok1 \in BOOLEAN : ProcessQueueGetMessage(ok1, TRUE)
    \/ Alive /\ \E instance \in 1..MaxInstances : Drop(instance)
    \/ Alive /\ SetupExecutionStack
    \/ Alive /\ UpdateStackLimitCAS
    \/ Alive /\ CollectMutableGarbage
    \/ Destroy

SpecForeign == Init /\ [][NextForeign]_vars

(***************************************************************************)
(* SpecChain: coroutines that call coroutines, and the collection that     *)
(* chains their stacks for the program collection.  Every stack has one    *)
(* frame at most.                                                          *)
(***************************************************************************)
NextChain ==
    \/ SetupExecutionStack
    \/ UpdateStackLimitCAS
    \/ Running /\ \E f \in PushedFrames : Recurse(f.bcp, 1)
    \/ Running /\ NewStack(kInitialStackSize, TRUE)
    \/ Running /\ UpdateCoroutine
    \/ Running /\ CollectMutableGarbage
    \/ CollectGarbageAndChainStacks
    \/ CookStacks
    \/ UncookAndUnchainStacks(TRUE)

SpecChain == Init /\ [][NextChain]_vars
(***************************************************************************)
(* SpecLimit: every operation of the owner thread that ends with           *)
(* UpdateStackLimit (a change of coroutine, the growth of the stack, the   *)
(* acknowledgement of a marker, the two collections), racing with one      *)
(* other thread that sets the preempt and the debug-interrupt marker.  No  *)
(* frame is pushed.                                                        *)
(***************************************************************************)
NextLimit ==
    \/ Preempt("t1")
    \/ DebugInterrupt("t1")
    \/ SetStackMarkerCAS("t1")
    \/ SetupExecutionStack
    \/ UpdateStackLimitCAS
    \/ Running /\ HandleStackOverflow(kInitialStackSize)
    \/ ClearStackMarkerLoad
    \/ ClearStackMarkerCAS
    \/ UpdateStackLimitAfterClear
    \/ HandleStackOverflowRefuse
    \/ \E ok \in BOOLEAN : HandleStackOverflowAllocate(ok)
    \/ \E ok \in BOOLEAN : HandleStackOverflowRetry(ok)
    \/ Running /\ CollectMutableGarbage
    \/ Running /\ callers = << >> /\ NewStack(kInitialStackSize, TRUE)
    \/ Running /\ callers = << >> /\ UpdateCoroutine
    \/ CollectGarbageAndChainStacks
    \/ CookStacks
    \/ UncookAndUnchainStacks(TRUE)

SpecLimit == Init /\ [][NextLimit]_vars
(***************************************************************************)
(* SpecTermination: the three loops around a weak compare-exchange, with   *)
(* finitely many calls: the other threads set a marker that is not yet     *)
(* pending, and only until the owner's first stack check begins; the owner *)
(* acknowledges the markers; two senders send their signals.  A thread     *)
(* that is in a call takes its next step in the end, and a compare-exchange *)
(* that could succeed again and again does succeed in the end.             *)
(***************************************************************************)
\* The senders of this specification.
FewSenders == {t \in Senders : t <= 2}
\* A SetStackMarker(marker) call may begin.
MayStillSet(marker) == call.outcome = "none" /\ marker \notin pending

NextTermination ==
    \/ \E t \in Setters : MayStillSet(kPreemptMarker) /\ Preempt(t)
    \/ \E t \in Setters : MayStillSet(kProfileMarker) /\ Profile(t)
    \/ \E t \in Setters : SetStackMarkerCAS(t)
    \/ SetupExecutionStack
    \/ UpdateStackLimitCAS
    \/ pending # {} /\ HandleStackOverflow(kInitialStackSize)
    \/ ClearStackMarkerLoad
    \/ ClearStackMarkerCAS
    \/ UpdateStackLimitAfterClear
    \/ \E t \in FewSenders : SendSignalLoad(t)
    \/ \E t \in FewSenders : SendSignalCAS(t)

SpecTermination ==
    /\ Init
    /\ [][NextTermination]_vars
    /\ \A t \in Setters : WF_vars(SetStackMarkerCAS(t))
    /\ WF_vars(ClearStackMarkerLoad)
    /\ WF_vars(ClearStackMarkerCAS)
    /\ \A t \in FewSenders :
          /\ WF_vars(senders[t].pc = "load" /\ SendSignalLoad(t))
          /\ WF_vars(SendSignalCAS(t))
          /\ SF_vars(SendSignalCAS(t) /\ senders'[t].pc = "done")
(***************************************************************************)
(* Properties of the stack limit and its markers (SpecInterrupts).         *)
(***************************************************************************)
\* The sentinel with the bits of the markers in S.
Sentinel(S) ==
    kMaxStackMarker + (IF kPreemptMarker \in S THEN kPreemptMarker ELSE 0)
                    + (IF kProfileMarker \in S THEN kProfileMarker ELSE 0)
                    + (IF kDebugInterruptMarker \in S THEN kDebugInterruptMarker ELSE 0)
MarkerSet(limit, m) == limit >= kMaxStackMarker /\ HasBit(limit, m)
\* The owner is between two operations, the last one a HandleStackOverflow.
Returned == owner.pc = "idle" /\ call.outcome # "none"

\* C1: in every reachable state the stack-limit word is a real limit below
\* kMaxStackMarker that carries no marker bit (the initial 0 or the word-aligned
\* threshold of a stack), or kMaxStackMarker or-ed with a subset of the three
\* marker bits.
C1_LimitIsRealOrSentinel ==
    \/ /\ stack_limit < kMaxStackMarker
       /\ MarkerBits(stack_limit) = {}
       /\ stack_limit = 0 \/ stack_limit >= SpaceBase(0)
    \/ \E S \in SUBSET Markers : stack_limit = Sentinel(S)
\* Two markers have been set while the owner is inside UpdateStackLimit.
C1_Witness ==
    /\ stack_limit = Sentinel({kPreemptMarker, kDebugInterruptMarker})
    /\ owner.pc = "usl_cas"
    /\ owner.limit < kMaxStackMarker

\* C2: a marker bit that is set in the stack-limit word stays set in every
\* step but the owner's successful compare-exchange in ClearStackMarker of that
\* very marker, and a SetStackMarker(m) call completes only with bit m set.
C2_NoMarkerLost ==
    [][/\ \A m \in Markers :
             (MarkerSet(stack_limit, m) /\ ~MarkerSet(stack_limit', m))
                => (owner.pc = "clear_cas" /\ owner.marker = m
                      /\ owner'.pc = "usl_load")
       /\ \A t \in Setters :
             (setters[t].pc = "cas" /\ setters'[t].pc = "idle")
                => MarkerSet(stack_limit', setters[t].marker)]_vars
\* UpdateStackLimit is about to fail its compare-exchange: a marker was set
\* after it read a real limit.
C2_Witness ==
    /\ owner.pc = "usl_cas"
    /\ owner.limit < kMaxStackMarker
    /\ MarkerSet(stack_limit, kPreemptMarker)
    /\ \E t \in Setters : setters[t].pc = "cas" /\ setters[t].marker = kProfileMarker

\* C3: from the return of Preempt() until the owner clears the marker the
\* stack-limit word is >= kMaxStackMarker, and a HandleStackOverflow call
\* that starts in that time acknowledges the preempt marker and returns
\* Interrupt: it neither grows the stack nor returns Continue or Overflow.
C3_PreemptIsObserved ==
    /\ kPreemptMarker \in pending => stack_limit >= kMaxStackMarker
    /\ kPreemptMarker \in call.entry_pending =>
          /\ call.outcome \in {"running", "ack"}
          /\ call.outcome = "running" =>
                owner.pc \in {"clear_load", "clear_cas"} /\ owner.marker = kPreemptMarker
          /\ call.outcome = "ack" =>
                call.acked = kPreemptMarker /\ call.result = "Interrupt"
\* A call that started with preempt and debug-interrupt pending has returned.
C3_Witness ==
    /\ Returned
    /\ call.entry_pending = {kPreemptMarker, kDebugInterruptMarker}
    /\ call.result = "Interrupt"

\* C4: the word carries bit m exactly when a SetStackMarker(m) call has
\* completed since m was last cleared, however many such calls there were,
\* and the owner acknowledges only a marker for which that is so: one
\* acknowledgement per round of calls.
C4_OneBitOneAcknowledgement ==
    /\ \A m \in Markers : m \in pending <=> MarkerSet(stack_limit, m)
    /\ owner.pc \in {"clear_load", "clear_cas"} => owner.marker \in pending
    /\ Returned /\ call.outcome = "ack" =>
          call.acked \in call.entry_pending /\ call.result = ResultFor(call.acked)
\* A second SetStackMarker(profile) is at its compare-exchange, having read
\* a word that carries the profile bit already.
C4_Witness ==
    \E t \in Setters :
        /\ setters[t].pc = "cas"
        /\ setters[t].marker = kProfileMarker
        /\ MarkerSet(setters[t].limit, kProfileMarker)
        /\ stack_limit = setters[t].limit
        /\ kProfileMarker \in pending

\* C5: between two operations of the owner, the word is the real limit of
\* the current stack when no marker is pending, and the sentinel with the
\* bits of the pending markers otherwise; a call that acknowledges clears
\* one of the markers that were pending when it started; with preempt and
\* profile pending, the call returns Interrupt and, with only profile pending,
\* Continue.
C5_LimitRestoredAfterLastMarker ==
    /\ (owner.pc = "idle" /\ coroutine_ = "coroutine") =>
          stack_limit = IF pending = {} THEN RealStackLimit(stack) ELSE Sentinel(pending)
    /\ (Returned /\ call.outcome = "ack") =>
          /\ call.acked \in call.entry_pending
          /\ (call.entry_pending \ {call.acked}) \subseteq pending
          /\ call.entry_pending = {kPreemptMarker, kProfileMarker} =>
                call.result = "Interrupt"
          /\ call.entry_pending = {kProfileMarker} => call.result = "Continue"
\* Preempt() then Profile(), and the first stack check has returned.
C5_Witness ==
    /\ Returned
    /\ call.entry_pending = {kPreemptMarker, kProfileMarker}
    /\ call.result = "Interrupt"
    /\ stack_limit = Sentinel({kProfileMarker})

(***************************************************************************)
(* Properties of the growth of the stack (Spec).                           *)
(***************************************************************************)
\* The stack the call started with, and the distance between the ends of
\* the current stack and of that one.
EntryStack == call.entry_stack
EndOf(st) == Pointer(st, st.length)
\* The live words of new are those of old, but for the links of old's frame
\* chain, which lie as far from the end of new as they did from the end of
\* old.
SameLiveWords(new, old) ==
    /\ Height(new) = Height(old)
    /\ \A j \in 1..Height(old) :
          IF (old.top + j - 1) \in LinkSet(old) /\ old.slots[j] # NULL
          THEN new.slots[j] - EndOf(new) = old.slots[j] - EndOf(old)
          ELSE new.slots[j] = old.slots[j]

\* C6: a call that found no marker pending, did not exceed the platform
\* maximum and got its stack allocated has returned Continue, and the new
\* stack has length L + max(256, RoundUpToPowerOfTwo(k)) for the old length L
\* and the addition k: the growth is a power of two, at least 256 and at
\* least k, and the least such.
C6_GrownLength ==
    (Returned /\ call.entry_pending = {} /\ call.outcome # "refused"
        /\ \E i \in 1..Len(call.allocs) : call.allocs[i]) =>
        LET growth == stack.length - EntryStack.length
        IN  /\ call.result = "Continue"
            /\ \E i \in 0..WordBits : growth = 2 ^ i
            /\ growth >= 256
            /\ growth >= call.addition
            /\ growth > 256 => growth \div 2 < call.addition
            /\ stack.length <= MaxStackSizeInWords
\* A stack of 256 words has grown to 512 words for an addition of 4.
C6_Witness ==
    /\ Returned
    /\ call.outcome = "grew"
    /\ call.addition = 4
    /\ EntryStack.length = 256
    /\ stack.length = 512
    /\ NumberOfFrames(stack) = 1

\* C7 as stated: after a growing call the live height is unchanged and every
\* live word of the new stack equals the word at the same distance from the
\* end of the original stack.
C7_LiveWordsBitwiseEqual ==
    (Returned /\ call.outcome = "grew") =>
        /\ Height(stack) = Height(EntryStack)
        /\ stack.slots = EntryStack.slots
\* C7 as amended: after a growing call the live height is unchanged and every
\* live word but the frame-pointer links equals the word at the same distance
\* from the end of the original stack; a link that is not NULL lies as far
\* from the end of the new stack as the original did from the end of the
\* original stack.
C7_LiveWordsPreserved ==
    (Returned /\ call.outcome = "grew") =>
        /\ stack.top = stack.length - Height(EntryStack)
        /\ SameLiveWords(stack, EntryStack)
\* A stack with two frames, one with a local, has grown.
C7_Witness ==
    /\ Returned
    /\ call.outcome = "grew"
    /\ NumberOfFrames(EntryStack) = 2
    /\ Height(stack) = 7
    /\ stack.slots # EntryStack.slots

\* C8: after a growing call every frame-pointer link of the new stack leads
\* to a word of the new stack, and the walk over the frames meets the same
\* frames as in the original stack: the same BCPs, the same sizes, the frame
\* pointers at the same distances from the end.
C8_FrameChainPreserved ==
    (Returned /\ call.outcome = "grew") =>
        /\ ChainInside(stack)
        /\ Len(Links(stack)) = Len(Links(EntryStack))
        /\ Frames(stack) = Frames(EntryStack)
        /\ \A j \in 1..Len(Links(stack)) :
              LET w == WordAt(stack, Links(stack)[j])
              IN  w # NULL => ~InStack(EntryStack, w)
\* A stack with two frames has grown after a collection moved it.
C8_Witness ==
    /\ Returned
    /\ call.outcome = "grew"
    /\ NumberOfFrames(stack) = 2
    /\ call.gcs = 1

\* C9: the step of HandleStackOverflow that follows the tests of the markers,
\* when L + max(256, RoundUpToPowerOfTwo(k)) is more than
\* Platform::MaxStackSizeInWords, returns Overflow with no allocation and no
\* collection and leaves the stack, the heap, the store buffer and the
\* stack-limit word as they are; when the sum is at most the maximum, the
\* call is not refused for its size.
C9_RefusedBeyondMaximum ==
    [][(owner.pc = "hso_grow" /\ owner' # owner) =>
          LET new_size == stack.length
                            + Maximum(256, RoundUpToPowerOfTwo(owner.addition))
          IN  /\ new_size > MaxStackSizeInWords =>
                    /\ owner'.pc = "idle"
                    /\ call'.result = "Overflow"
                    /\ call'.allocs = << >>
                    /\ call'.gcs = 0
                    /\ UNCHANGED << stack, heap, store_buffer, stack_limit, coroutine_ >>
              /\ new_size <= MaxStackSizeInWords =>
                    /\ call'.outcome # "refused"
                    /\ Len(call'.allocs) = 1]_vars
\* A stack of 512 words was refused 512 more.
C9_Witness ==
    /\ Returned
    /\ call.outcome = "refused"
    /\ call.result = "Overflow"
    /\ EntryStack.length = 512
    /\ call.addition = 257
    /\ stack = EntryStack

\* C10: one call tries the allocation at most twice and collects at most
\* once, after a failed first try and before the second; when the second try
\* fails too the call returns Overflow and the coroutine has a stack of the
\* original length and top, with the original live words (moved by the
\* collection) and the same frames.
C10_OneCollectionOneRetry ==
    /\ Len(call.allocs) <= 2
    /\ call.gcs <= 1
    /\ call.gcs = 1 => (call.gc_after = 1 /\ ~call.allocs[1])
    /\ Len(call.allocs) = 2 => (call.gcs = 1 /\ ~call.allocs[1])
    /\ (Returned /\ call.outcome = "failed") =>
          /\ call.allocs = << FALSE, FALSE >>
          /\ call.result = "Overflow"
          /\ coroutine_ = "coroutine"
          /\ stack.length = EntryStack.length
          /\ stack.top = EntryStack.top
          /\ SameLiveWords(stack, EntryStack)
          /\ Frames(stack) = Frames(EntryStack)
          /\ ChainInside(stack)
\* Both tries failed for a stack with a frame.
C10_Witness ==
    /\ Returned
    /\ call.outcome = "failed"
    /\ NumberOfFrames(stack) = 1
    /\ stack.address # EntryStack.address

(***************************************************************************)
(* Properties of the factories and of the collections (SpecHeap).          *)
(***************************************************************************)
\* The paths from a root into the heap: the indices of the slots to follow.
MaxLength ==
    CHOOSE n \in ArrayLengths \cup {NumberOfStatics} :
        \A m \in ArrayLengths \cup {NumberOfStatics} : m <= n
Paths == UNION {[1..n -> 1..MaxLength] : n \in 0..MaxObjects}
\* The value at the end of a path that starts at value, NULL when the path
\* leaves the arrays.
RECURSIVE Follow(_, _, _)
Follow(objs, value, path) ==
    IF path = << >> THEN value
    ELSE IF value \in DOMAIN objs /\ objs[value].kind = "array"
            /\ path[1] <= objs[value].length
    THEN Follow(objs, objs[value].slots[path[1]], Tail(path))
    ELSE NULL
RootNames == {"statics_", "exception_"}
HoldsProgramPointer(object) ==
    object.kind = "array"
        /\ \E i \in 1..object.length : InProgramSpace(object.slots[i])

\* C12: a collection leaves every surviving object that holds a pointer into
\* the program space or the shared heap in the replaced store buffer, under
\* its address in the to-space, and every such pointer that was reachable
\* from a root is found unchanged at the end of the same path.
C12_StoreBufferSound ==
    [][heap'.space # heap.space =>
        LET before == [statics_ |-> statics_, exception_ |-> exception_]
            after == [statics_ |-> statics_', exception_ |-> exception_']
        IN  /\ \A a \in DOMAIN objects' :
                   /\ InSpace(heap'.space, a)
                   /\ HoldsProgramPointer(objects'[a]) => a \in store_buffer'
            /\ \A r \in RootNames, path \in Paths :
                   InProgramSpace(Follow(objects, before[r], path)) =>
                       Follow(objects', after[r], path)
                           = Follow(objects, before[r], path)]_vars
\* After a collection the static fields lead to an array that holds the
\* string of the shared heap, and the array is in the store buffer.
C12_Witness ==
    /\ heap.space = 1
    /\ returned = NoResult
    /\ \E a \in DOMAIN objects \ {statics_} :
           /\ objects[statics_].slots[1] = a
           /\ objects[a].kind = "array"
           /\ objects[a].slots[1] = SharedString
           /\ a \in store_buffer

\* A step in which a factory returns.
FactoryReturns == returned' # returned /\ returned'.factory # "none"
\* C13, as claimed: a successful NewArray or NewStack leaves the new object
\* in the store buffer, and a failure inserts nothing.
C13_AggregatesAreInserted ==
    [][FactoryReturns =>
        IF IsHeapObject(returned'.result)
        THEN returned'.result \in store_buffer'
        ELSE store_buffer' = store_buffer]_vars
\* C13, amended: a successful NewStack leaves the new stack in the store
\* buffer; a successful NewArray leaves the store buffer as it was, without
\* the new array; a failure inserts nothing.
C13_StacksAreInserted ==
    [][FactoryReturns =>
        IF IsHeapObject(returned'.result) /\ returned'.factory = "NewStack"
        THEN /\ returned'.result \notin store_buffer
             /\ store_buffer' = store_buffer \cup {returned'.result}
        ELSE /\ store_buffer' = store_buffer
             /\ returned'.result \notin store_buffer']_vars
\* NewArray has returned an array, which is not in the store buffer; the
\* stack that NewStack made for SetupExecutionStack is.
C13_Witness ==
    /\ returned.factory = "NewArray"
    /\ IsHeapObject(returned.result)
    /\ objects[returned.result].kind = "array"
    /\ returned.result \notin store_buffer
    /\ stack.address \in store_buffer

BcpsOf(st) ==
    LET places == BcpPlaces(st)
    IN  [j \in DOMAIN places |-> st.slots[places[j]]]
\* The stacks among the objects of a table.
StacksOf(table) == {a \in DOMAIN table : table[a].kind = "stack"}

\* C15: for every chain of stacks, UncookAndUnchainStacks after CookStacks
\* leaves in every frame the BCP bytecode_address_for(0) + delta of the
\* function and the delta the frame had before CookStacks, the function
\* moved or not; every next of the chain is Smi zero and the table of the
\* deltas is empty.
C15_CookUncookRoundTrip ==
    [][(program_gc.phase = "cooked" /\ program_gc'.phase = "none") =>
        LET table == TableOf(stack', objects')
        IN  /\ cooked_stack_deltas_' = << >>
            /\ \A a \in DOMAIN program_gc.precooked :
                   /\ table[a].next = 0
                   /\ BcpsOf(StackOf(a, table[a])) =
                          [j \in DOMAIN program_gc.precooked[a] |->
                              BytecodeStart(functions'[program_gc.precooked[a][j].function])
                                  + program_gc.precooked[a][j].delta]]_vars

\* CookStacks has stored a delta beyond the end of a list: a chained stack
\* has more frames than the current stack has words.
C15_Witness ==
    /\ program_gc.phase = "cooked"
    /\ \E i \in DOMAIN cooked_stack_deltas_ :
           /\ Len(cooked_stack_deltas_[i].beyond) > 0
           /\ cooked_stack_deltas_[i].length = stack.length

\* C16: between CookStacks and UncookAndUnchainStacks every frame of every
\* chained stack holds a function in its BCP slot and the table holds a
\* delta for every frame; in every other state every BCP slot holds a
\* pointer to a byte code and the table is empty.
C16_CookedBetweenCookAndUncook ==
    LET table == TableOf(stack, objects)
    IN  IF program_gc.phase = "cooked"
        THEN LET chain == ChainedStacks(table, stack.address,
                                        program_gc.number_of_stacks)
             IN  /\ Len(cooked_stack_deltas_) = Len(chain)
                 /\ \A i \in DOMAIN chain :
                        LET bcps == BcpsOf(StackOf(chain[i], table[chain[i]]))
                        IN  /\ \A j \in DOMAIN bcps : IsFunction(bcps[j])
                            /\ Len(bcps) <= cooked_stack_deltas_[i].length
                            /\ Len(cooked_stack_deltas_[i].written) = Len(bcps)
        ELSE /\ cooked_stack_deltas_ = << >>
             /\ \A a \in StacksOf(table) :
                    LET bcps == BcpsOf(StackOf(a, table[a]))
                    IN  \A j \in DOMAIN bcps : ~IsFunction(bcps[j])

(***************************************************************************)
(* Properties of SendSignal (SpecSignal).                                  *)
(***************************************************************************)
\* The senders whose SendSignal call is over.
SendersDone == {t \in Senders : senders[t].pc = "done"}

\* C17: whatever the interleaving of the SendSignal calls, the signal in the
\* slot is the one whose compare-exchange from NULL succeeded and it is never
\* replaced; SendSignal does not decrement it, and it decrements every other
\* signal exactly once, in that signal's own call: when all calls are over
\* exactly one signal is installed.
C17_OneSignalInstalled ==
    [][/\ signal_ # NULL => signal_' = signal_
       /\ \A t \in Senders :
             /\ signal_refs'[t] =
                   IF senders'[t].result = "rejected" THEN 0 ELSE 1
             /\ signal_refs'[t] # signal_refs[t] =>
                   (senders[t].pc # "done" /\ senders'[t].pc = "done")
             /\ senders'[t].result = "installed" <=> signal_' = t
       /\ SendersDone' = Senders =>
             Cardinality({t \in Senders : senders'[t].result = "installed"}) = 1]_vars
\* All calls are over and the second sender won; the others were rejected,
\* one of them after its compare-exchange had failed.
C17_Witness ==
    /\ SendersDone = Senders
    /\ signal_ = 2
    /\ signal_refs = [s \in Senders |-> IF s = 2 THEN 1 ELSE 0]

(***************************************************************************)
(* Properties of the lookup cache (SpecLookup).                            *)
(***************************************************************************)
\* The entries of the two tables.
CacheEntries ==
    {primary[i] : i \in DOMAIN primary} \cup {secondary[i] : i \in DOMAIN secondary}

\* C18: after a LookupEntrySlow(p, c, s) that missed the secondary table, the
\* entry that was in the primary slot p before the call is in the secondary
\* table at the index of its own class and selector, where a lookup of these
\* finds it; p holds c and s with the resolved target and is the entry
\* returned.
C18_PrimaryIsDemoted ==
    lookup.returned = "primary" =>
        /\ secondary[ComputeSecondaryIndex(lookup.old.clazz, lookup.old.selector)]
              = lookup.old
        /\ SecondaryHit(secondary, lookup.old.clazz, lookup.old.selector)
        /\ lookup.index = lookup.p
        /\ primary[lookup.p].clazz = lookup.clazz
        /\ primary[lookup.p].selector = lookup.selector
        /\ primary[lookup.p].target # NULL
        /\ primary[lookup.p].target \in
              {FunctionOf(lookup.clazz, lookup.selector),
               FunctionOf(lookup.clazz, TrampolineSelector)}
\* A filled primary entry was replaced by one for another selector.
C18_Witness ==
    /\ lookup.returned = "primary"
    /\ lookup.old.clazz # NULL
    /\ lookup.old.selector # lookup.selector
    /\ lookup.old.tag # primary[lookup.p].tag

\* C19 as stated: every filled entry of the cache has a tag that is not zero.
C19_TagNeverZero ==
    \A entry \in CacheEntries : entry.clazz # NULL => entry.tag # 0
\* C19: an entry for a selector its class implements has the address of the
\* target's intrinsic as its tag, or 1 when the target has none, and never
\* zero; an entry for a selector its class does not implement has the
\* trampoline as its target and the tag zero, like an empty entry.
C19_TagOfImplementedSelector ==
    \A entry \in CacheEntries :
        \/ entry = EmptyEntry
        \/ /\ entry.clazz \in Classes /\ entry.selector \in Selectors
           /\ LET target == LookupMethod(entry.clazz, entry.selector)
              IN  IF target # NULL
                  THEN /\ entry.target = target
                       /\ entry.tag # 0
                       /\ ComputeIntrinsic(target) = NULL => entry.tag = 1
                       /\ ComputeIntrinsic(target) # NULL
                             => entry.tag = ComputeIntrinsic(target)
                  ELSE /\ entry.target = FunctionOf(entry.clazz, TrampolineSelector)
                       /\ entry.tag = 0
\* The cache holds an entry with an intrinsic, one without, and one for a
\* selector that its class does not implement.
C19_Witness ==
    /\ \E entry \in CacheEntries : entry.tag = 1
    /\ \E entry \in CacheEntries : entry.tag > 1
    /\ \E entry \in CacheEntries : entry.clazz # NULL /\ entry.tag = 0

(***************************************************************************)
(* Properties of ProcessQueueGetMessage (SpecMailbox).                     *)
(***************************************************************************)
\* C20: ProcessQueueGetMessage advances the current message only when it
\* returns a materialized value, and then by one; when it returns
\* retry_after_gc the current message is the one it was, no finalizer
\* is registered, the foreign-memory counter and the reference count of the
\* handle are what they were, and so the messages are delivered one by one,
\* in order, each exactly once.
C20_AdvanceOnlyOnSuccess ==
    [][/\ native'.result = "retry_after_gc" =>
             /\ current_message' = current_message
             /\ weak_pointers' = weak_pointers
             /\ foreign_memory' = foreign_memory
             /\ handle_refs' = handle_refs
             /\ delivered' = delivered
       /\ current_message' # current_message =>
             /\ native'.result # "retry_after_gc"
             /\ native'.message = current_message
             /\ current_message' = current_message + 1
       /\ delivered' = [i \in 1..(current_message' - 1) |-> i]]_vars
\* The death notification was not allocated at the first try; the message
\* was then delivered by a later call.
C20_Witness ==
    /\ native.kind = "PROCESS_DEATH_SIGNAL"
    /\ native.result = "process_death"
    /\ instances = 3
    /\ handle_refs = 2
    /\ delivered = << 1 >>

(***************************************************************************)
(* Properties of foreign memory and its finalizers (SpecForeign).          *)
(***************************************************************************)
\* The instances whose foreign finalizer is registered.
Registered ==
    {w.object : w \in {v \in weak_pointers : v.callback = "FinalizeForeign"}}
\* The instances made for the ForeignFinalized messages.
MadeFinalized ==
    {i \in DOMAIN foreign_fields :
        messages[foreign_fields[i].message].kind = "FOREIGN_FINALIZED"}
\* The byte lengths of the messages that a set of instances were made for,
\* together.
RECURSIVE BytesOf(_)
BytesOf(is) ==
    IF is = {} THEN 0
    ELSE LET i == CHOOSE j \in is : TRUE
         IN  messages[foreign_fields[i].message].size + BytesOf(is \ {i})

\* C21: receiving a ForeignFinalized message of byte length n through
\* ProcessQueueGetMessage adds exactly n to the foreign-memory counter of
\* the heap and registers one finalizer, for the instance made; a plain
\* Foreign message does neither.  The finalizer of an instance runs at most
\* once: in the collection in which the instance has died, or when the
\* process is destroyed, and it takes n off the counter.  The counter is
\* the sum of the lengths of the instances whose finalizer is registered,
\* and it is 0 once the process is destroyed.
C21_ForeignMemoryAccounted ==
    [][/\ delivered' # delivered =>
             LET queue == messages[current_message]
             IN  IF queue.kind = "FOREIGN_FINALIZED"
                 THEN /\ foreign_memory' = foreign_memory + queue.size
                      /\ instances' \notin Registered
                      /\ weak_pointers' =
                            weak_pointers \cup {[object |-> instances',
                                                 callback |-> "FinalizeForeign"]}
                 ELSE /\ foreign_memory' = foreign_memory
                      /\ weak_pointers' = weak_pointers
       /\ LET run == {i \in DOMAIN finalized : finalized'[i] # finalized[i]}
          IN  /\ \A i \in run : finalized[i] = 0 /\ finalized'[i] = 1
              /\ run # {} => foreign_memory' = foreign_memory - BytesOf(run)
              /\ heap'.space # heap.space => run = Registered \cap garbage
              /\ destroyed'.done /\ ~destroyed.done => run = Registered
       /\ foreign_memory' = BytesOf(Registered)'
       /\ destroyed'.done =>
             /\ foreign_memory' = 0
             /\ \A i \in DOMAIN finalized' :
                   finalized'[i] = IF i \in MadeFinalized' THEN 1 ELSE 0]_vars
\* Two ForeignFinalized messages of 128 and of 16 bytes were received; the
\* instance of the first has died and a collection has run its finalizer,
\* the second is counted still.
C21_Witness ==
    /\ Alive
    /\ Len(messages) = 2
    /\ messages[1].size = 128
    /\ messages[2].size = ForeignSize
    /\ finalized[1] = 1
    /\ Registered = {2}
    /\ foreign_memory = ForeignSize

(***************************************************************************)
(* Properties of Cleanup and the destructor (SpecCleanup).                 *)
(***************************************************************************)
\* Cleanup has detached every port: the list is empty, and
\* OwnerProcessTerminating was called once on every port, which refers to
\* no process any more.
PortsDetached ==
    /\ ports_ = << >>
    /\ \A port \in DOMAIN port_process :
          /\ port_process[port].terminating = 1
          /\ port_process[port].process = "null"
\* Every linked process was sent one signal, of the kind given to Cleanup,
\* and no other process was sent one.
LinkedNotified ==
    /\ \A q \in Processes :
          Cardinality({i \in DOMAIN signals : signals[i].to = q /\ ~signals[i].monitor})
             = IF [process |-> q, monitor |-> FALSE] \in links THEN 1 ELSE 0
    /\ \A i \in DOMAIN signals : ~signals[i].monitor => signals[i].kind = cleanup.kind

\* C23, as stated: when Cleanup(kind) is over every owned port is detached,
\* each by one call of OwnerProcessTerminating, the linked processes are
\* notified with the kind, and the reference count of the process handle is
\* one less than it was; the destructor then finds the port list empty.
C23_CleanupDecrementsHandle ==
    /\ \A port \in DOMAIN port_process : port_process[port].terminating <= 1
    /\ cleanup.pc = "done" =>
          /\ PortsDetached
          /\ LinkedNotified
          /\ Alive => process_handle_.refs = 0
          /\ destroyed.done => destroyed.ports_empty
\* C23, amended: when Cleanup(kind) is over every owned port is detached,
\* each by one call of OwnerProcessTerminating, the linked processes are
\* notified with the kind, and the process handle refers to no process any
\* more while its reference count is what it was: it is the destructor that
\* decrements it, and that finds the port list empty.
C23_CleanupDetachesHandle ==
    /\ \A port \in DOMAIN port_process : port_process[port].terminating <= 1
    /\ cleanup.pc = "done" =>
          /\ PortsDetached
          /\ LinkedNotified
          /\ process_handle_.process = "null"
          /\ process_handle_.refs = IF Alive THEN 1 ELSE 0
          /\ destroyed.done => destroyed.ports_empty
\* Cleanup(kUncaughtException) ran on a process with two ports and a linked
\* process, and the process was destroyed.
C23_Witness ==
    /\ cleanup.pc = "done"
    /\ cleanup.kind = "kUncaughtException"
    /\ destroyed.done
    /\ Cardinality(DOMAIN port_process) = 2
    /\ [process |-> "p1", monitor |-> FALSE] \in links
    /\ signals # << >>

(***************************************************************************)
(* Properties of ProcessQueueGetChannel (SpecChannel).                     *)
(***************************************************************************)
\* C22: ProcessQueueGetChannel removes from the front of the mailbox the
\* leading run of messages whose port has no channel and no other message:
\* none with a live channel.  It returns the channel of the first message
\* with a live channel, which stays the current message, and the null
\* object when no such message remains.  The messages keep their order of
\* arrival.
C22_GetChannelDropsDeadRun ==
    [][channel_call' # channel_call =>
          /\ messages' = messages
          /\ channels' = channels
          /\ current_message' >= current_message
          /\ channel_call'.dropped = current_message' - current_message
          /\ \A i \in current_message..(current_message' - 1) :
                channels[messages[i].port] = NULL
          /\ IF current_message' <= Len(messages)
             THEN /\ channels[messages[current_message'].port] # NULL
                  /\ channel_call'.result = channels[messages[current_message'].port]
             ELSE /\ current_message' = Len(messages) + 1
                  /\ channel_call'.result = null_object]_vars
\* The channel of the port of the first message had been collected: the
\* call dropped that message and returned the channel of the second one,
\* which is the current message.
C22_Witness ==
    /\ Len(messages) = 2
    /\ channel_call.entry = 1
    /\ channel_call.dropped = 1
    /\ current_message = 2
    /\ channels[messages[1].port] = NULL
    /\ channel_call.result = channels[messages[2].port]
    /\ channel_call.result # NULL

(***************************************************************************)
(* Properties of the steps of the debugger (SpecDebug).                    *)
(***************************************************************************)
\* The breakpoints a step has installed.
Installed == debug_info_'.breakpoints \ debug_info_.breakpoints
\* The opcodes whose stack difference comes from the arity of the selector
\* and from the arity of the target.
MethodInvokes == {"kInvokeMethod", "kInvokeMethodUnfold", "kInvokeNoSuchMethod"}
StaticInvokes == {"kInvokeStatic", "kInvokeFactory"}
UnfoldedInvokes == {"kInvokeStaticUnfold", "kInvokeFactoryUnfold"}

\* C24: PrepareStepOver on an invoke opcode at BCP b installs one one-shot
\* breakpoint, at the bytecode index b + Size(opcode) - function start of
\* the current function, for the current coroutine, with stack_height =
\* length - (top - stack_diff + 2), where stack_diff is -arity(selector)
\* for the method invokes and 1 - arity(target) for the static and factory
\* invokes, unfolded or not; for InvokeMethod with a selector of arity 2
\* that is length - (top + 4).
C24_StepOverBreakpoint ==
    [][step_call' # step_call /\ step_call'.call = "PrepareStepOver" =>
          LET b == Frames(stack)[1].bcp
              instruction == InstructionAt(b)
              opcode == instruction.opcode
              function == FromBytecodePointer(b)
              invoke == opcode \in MethodInvokes \cup StaticInvokes \cup UnfoldedInvokes
              stack_diff ==
                  IF opcode \in MethodInvokes THEN - ArityField(instruction.operand)
                  ELSE IF opcode \in StaticInvokes
                  THEN 1 - FunctionArity(StaticMethodAt(instruction.operand))
                  ELSE 1 - FunctionArity(ConstantForBytecode(instruction.operand))
          IN  invoke =>
                /\ Installed =
                      {[id |-> step_call'.result, function |-> function,
                        bytecode_index |-> b + BytecodeSize(opcode) - BytecodeStart(function),
                        is_one_shot |-> TRUE, coroutine |-> coroutine_,
                        stack_height |-> stack.length - (stack.top - stack_diff + 2)]}
                /\ ~debug_info_'.is_stepping
                /\ opcode = "kInvokeMethod" /\ ArityField(instruction.operand) = 2 =>
                      \A bp \in Installed : bp.stack_height = stack.length - (stack.top + 4)
                /\ stack' = stack]_vars
\* PrepareStepOver was called at the InvokeMethod of arity 2 at the start
\* of the second function, in the callee of two frames.
C24_Witness ==
    /\ step_call.call = "PrepareStepOver"
    /\ NumberOfFrames(stack) = 2
    /\ Frames(stack)[1].bcp = BytecodeStart(functions[2])
    /\ \E bp \in debug_info_.breakpoints :
          /\ bp.function = functions[2]
          /\ bp.bytecode_index = 5
          /\ bp.stack_height = stack.length - (stack.top + 4)
          /\ bp.is_one_shot

\* C25: PrepareStepOut, with two frames on the stack at least, installs one
\* one-shot breakpoint: in the function of the caller, at the bytecode index
\* at which the caller resumes, for the current coroutine, with
\* stack_height = length - (the index of the bottom of the frame of the
\* callee + the arity of the callee), the height once the frame of the
\* callee and its arguments are popped.  It does not set stepping.
C25_StepOutBreakpoint ==
    [][step_call' # step_call /\ step_call'.call = "PrepareStepOut" =>
          LET callee == FromBytecodePointer(Frames(stack)[1].bcp)
              resume == Frames(stack)[2].bcp
              caller == FromBytecodePointer(resume)
              frame_bottom == stack.length - Frames(stack)[1].fp + 1
          IN  /\ NumberOfFrames(stack) >= 2
              /\ Installed =
                    {[id |-> step_call'.result, function |-> caller,
                      bytecode_index |-> resume - BytecodeStart(caller),
                      is_one_shot |-> TRUE, coroutine |-> coroutine_,
                      stack_height |->
                          stack.length - (frame_bottom + FunctionArity(callee))]}
              /\ ~debug_info_'.is_stepping
              /\ stack' = stack]_vars
\* PrepareStepOut was called in a function of arity 2 that the first
\* function has called with two arguments below a local of the callee.
C25_Witness ==
    /\ step_call.call = "PrepareStepOut"
    /\ NumberOfFrames(stack) = 2
    /\ FromBytecodePointer(Frames(stack)[1].bcp) = functions[2]
    /\ Frames(stack)[1].size = 3
    /\ Frames(stack)[2].size = 4
    /\ \E bp \in debug_info_.breakpoints :
          /\ bp.function = functions[1]
          /\ bp.bytecode_index = 5
          /\ bp.stack_height = 3

(***************************************************************************)
(* Properties of the acknowledgement of markers (SpecInterrupts).          *)
(***************************************************************************)
\* The place of a marker in the order of HandleStackOverflow's tests, and
\* the marker of a nonempty set that is tested first.
Rank(m) ==
    IF m = kPreemptMarker THEN 1 ELSE IF m = kDebugInterruptMarker THEN 2 ELSE 3
First(S) == CHOOSE m \in S : \A other \in S : Rank(m) <= Rank(other)
\* This step is the start of a HandleStackOverflow call.
CallStarts == call'.outcome = "running" /\ owner.pc = "idle" /\ owner'.pc # "idle"

\* C26: a HandleStackOverflow call that starts with markers pending
\* acknowledges exactly one, the first of them in the order preempt,
\* debug-interrupt, profile, and returns Interrupt, DebugInterrupt or Continue
\* for it; a marker bit leaves the word only in the acknowledgement of that
\* marker, one per call; and the call that follows with no marker set in
\* between acknowledges the first of the remaining ones, so that successive
\* calls return Interrupt, DebugInterrupt, Continue in that order.
C26_OneMarkerInPriorityOrder ==
    [][/\ (call'.outcome = "ack" /\ owner'.pc = "idle") =>
             /\ call'.entry_pending # {}
             /\ call'.acked = First(call'.entry_pending)
             /\ call'.result =
                   (IF kPreemptMarker \in call'.entry_pending THEN "Interrupt"
                    ELSE IF kDebugInterruptMarker \in call'.entry_pending
                         THEN "DebugInterrupt" ELSE "Continue")
             /\ (call'.entry_pending \ {call'.acked}) \subseteq pending'
       /\ (call'.entry_pending # {} /\ owner'.pc = "idle") => call'.outcome = "ack"
       /\ {m \in Markers : MarkerSet(stack_limit, m) /\ ~MarkerSet(stack_limit', m)}
             \subseteq (IF call.outcome = "running" /\ call'.outcome = "ack"
                        THEN {call'.acked} ELSE {})
       /\ (CallStarts /\ call.outcome = "ack"
             /\ pending = call.entry_pending \ {call.acked}) =>
             IF pending = {}
             THEN owner'.pc = "hso_grow"
             ELSE /\ owner'.pc = "clear_load"
                  /\ owner'.marker = First(pending)
                  /\ Rank(owner'.marker) > Rank(call.acked)]_vars
\* A call that started with debug-interrupt and profile pending has
\* returned DebugInterrupt, and the profile bit alone is left in the word.
C26_Witness ==
    /\ Returned
    /\ call.entry_pending = {kDebugInterruptMarker, kProfileMarker}
    /\ call.result = "DebugInterrupt"
    /\ call.acked = kDebugInterruptMarker
    /\ pending = {kProfileMarker}
    /\ stack_limit = Sentinel({kProfileMarker})

\* C28: the assertion of ClearStackMarker holds in every turn of its loop,
\* the first and those after a failed compare-exchange, however the
\* SetStackMarker calls of the other threads interleave with the owner: the
\* word it has read last is at least kMaxStackMarker and carries the bit of
\* the marker it is clearing.
C28_ClearAssertionHolds ==
    /\ owner.pc # "assertion_failed"
    /\ owner.pc = "clear_cas" =>
          owner.limit >= kMaxStackMarker /\ HasBit(owner.limit, owner.marker)
\* ClearStackMarker(preempt) is about to fail its compare-exchange and to
\* go round again: since HandleStackOverflow read the word, other threads
\* have changed it twice, once before and once after ClearStackMarker read
\* it.
C28_Witness ==
    /\ owner.pc = "clear_cas"
    /\ owner.marker = kPreemptMarker
    /\ owner.limit # call.entry_limit
    /\ stack_limit # owner.limit
    /\ stack_limit = Sentinel(Markers)
(***************************************************************************)
(* Properties of the stack limit at the return of the owner's operations   *)
(* (SpecLimit).                                                            *)
(***************************************************************************)
\* C27: whenever the owner thread is between two operations, having set up
\* its execution stack, the stack-limit word is the threshold
\* Pointer(kGuaranteedFrameSize + 2) of the stack the current coroutine has
\* now, or the sentinel with one marker bit or more: not the threshold of a
\* stack that was replaced or moved, and not the bare kMaxStackMarker.
C27_LimitOfCurrentStackAtReturn ==
    (owner.pc = "idle" /\ coroutine_ = "coroutine") =>
        \/ stack_limit = Pointer(stack, kGuaranteedFrameSize + 2)
        \/ \E S \in (SUBSET Markers) \ {{}} : stack_limit = Sentinel(S)
\* The process runs a second coroutine, whose stack the collection for the
\* program collection has moved, and the word is the threshold of that
\* stack where it is now.
C27_Witness ==
    /\ owner.pc = "idle"
    /\ callers # << >>
    /\ program_gc.phase = "chained"
    /\ stack_limit = Pointer(stack, kGuaranteedFrameSize + 2)
    /\ stack_limit # Pointer([stack EXCEPT !.address = callers[1]],
                             kGuaranteedFrameSize + 2)

(***************************************************************************)
(* Properties of the acknowledging call and the stack (Spec).              *)
(***************************************************************************)
\* The owner is inside a HandleStackOverflow call that has found a marker.
Acknowledging ==
    \/ owner.pc \in {"clear_load", "clear_cas", "usl_load"}
    \/ owner.pc = "usl_cas" /\ call.outcome = "ack"

\* C29: from the start to the return of a HandleStackOverflow call that
\* acknowledges a marker no step changes the stack of the coroutine (its
\* address, length, top and words), the heap, the objects in it or the store
\* buffer; the call allocates nothing and collects nothing, whatever the
\* addition it was called with; and the calls that allocate or collect are
\* those that started with no marker pending.
C29_AcknowledgingLeavesStack ==
    [][/\ (Acknowledging \/ (CallStarts /\ call'.entry_pending # {})) =>
             /\ stack' = stack
             /\ heap' = heap
             /\ store_buffer' = store_buffer
             /\ objects' = objects
             /\ call'.allocs = << >> /\ call'.gcs = 0
       /\ (call'.outcome = "ack" /\ owner'.pc = "idle") =>
             /\ stack' = call'.entry_stack
             /\ call'.allocs = << >> /\ call'.gcs = 0
       /\ (call'.allocs # << >> \/ call'.gcs # 0 \/ stack' # call'.entry_stack) =>
             call'.entry_pending = {}]_vars
\* A call with the addition 257, more than the 256-word stack with its two
\* frames has free, found the profile marker and returned Continue: the
\* stack is the one it was.
C29_Witness ==
    /\ Returned
    /\ call.outcome = "ack"
    /\ call.result = "Continue"
    /\ call.addition = 257
    /\ NumberOfFrames(stack) = 2
    /\ stack.length = kInitialStackSize
    /\ stack = call.entry_stack

(***************************************************************************)
(* Properties of the chain of stacks (SpecCook).                           *)
(***************************************************************************)
\* The stacks met by following next from address, for as long as next is a
\* stack of the table and for fuel stacks at most.
RECURSIVE FollowNext(_, _, _)
FollowNext(table, address, fuel) ==
    IF fuel = 0 \/ address \notin DOMAIN table THEN << >>
    ELSE << address >> \o FollowNext(table, table[address].next, fuel - 1)
\* The stacks of the process once a collection is over: the current one
\* and those the collection has copied, which are the ones it has reached
\* from the roots.
ReachedStacks ==
    {a \in DOMAIN TableOf(stack, objects) : TableOf(stack, objects)[a].kind = "stack"}

\* C30: when CollectGarbageAndChainStacks has returned n, the walk along
\* Stack.next from the stack of the current coroutine meets n stacks, all
\* different, the current stack first and every other stack the collection
\* has reached from the roots once, and the next of the last one is Smi
\* zero; so the walk of CookStacks(n) is at the end of the chain after n
\* stacks.
C30_ChainHoldsEveryStackOnce ==
    (program_gc.phase = "chained" /\ owner.pc = "idle") =>
        LET table == TableOf(stack, objects)
            n == program_gc.number_of_stacks
            chain == FollowNext(table, stack.address, Cardinality(DOMAIN table) + 1)
        IN  /\ Len(chain) = n
            /\ n >= 1
            /\ chain[1] = stack.address
            /\ \A i, j \in DOMAIN chain : chain[i] = chain[j] => i = j
            /\ {chain[i] : i \in DOMAIN chain} = ReachedStacks
            /\ table[chain[n]].next = 0
\* Three coroutines, each the caller of the next: the collection has
\* returned 3.
C30_Witness ==
    /\ program_gc.phase = "chained"
    /\ owner.pc = "idle"
    /\ program_gc.number_of_stacks = 3
    /\ Len(callers) = 2

(***************************************************************************)
(* Properties of the entry LookupEntrySlow returns (SpecLookup).           *)
(***************************************************************************)
\* The entry the last LookupEntrySlow call has returned.
ReturnedEntry ==
    IF lookup.returned = "primary" THEN primary[lookup.index]
    ELSE secondary[lookup.index]
\* What the resolution without a cache gives for a class and a selector.
Uncached(clazz, selector) ==
    IF LookupMethod(clazz, selector) # NULL THEN LookupMethod(clazz, selector)
    ELSE LookupMethod(clazz, TrampolineSelector)

\* C31: a LookupEntrySlow call for a class and a selector that the secondary
\* entry at their index holds returns that secondary entry and changes
\* neither the primary nor the secondary table.
C31_SecondaryHitChangesNothing ==
    [][\A clazz \in Classes, selector \in Selectors :
          LET index == (2 * clazz + selector) % SecondarySize
          IN  (/\ lookup'.clazz = clazz /\ lookup'.selector = selector
               /\ lookup' # lookup
               /\ secondary[index].clazz = clazz
               /\ secondary[index].selector = selector) =>
                 /\ lookup'.returned = "secondary"
                 /\ lookup'.index = index
                 /\ primary' = primary
                 /\ secondary' = secondary]_vars
\* The call has returned the secondary entry, while the primary entry of the
\* class and the selector holds another selector.
C31_Witness ==
    /\ lookup.returned = "secondary"
    /\ secondary[lookup.index].clazz = lookup.clazz
    /\ secondary[lookup.index].selector = lookup.selector
    /\ primary[lookup.p].clazz # NULL
    /\ primary[lookup.p].selector # lookup.selector

\* C32: after any number of LookupEntrySlow calls the entry the last call
\* has returned holds the class and the selector of the call, and its
\* target is the one the resolution without the cache gives: the method of
\* the class for the selector, or the noSuchMethodTrampoline method of the
\* class when it has none.
C32_ReturnedEntryIsResolution ==
    lookup.returned # "none" =>
        /\ ReturnedEntry.clazz = lookup.clazz
        /\ ReturnedEntry.selector = lookup.selector
        /\ ReturnedEntry.target = Uncached(lookup.clazz, lookup.selector)
\* The secondary entry returned was demoted from the primary table, and is
\* for a selector the class does not implement; another class with the same
\* primary index has taken its place there.
C32_Witness ==
    /\ lookup.returned = "secondary"
    /\ LookupMethod(lookup.clazz, lookup.selector) = NULL
    /\ ReturnedEntry.target = FunctionOf(lookup.clazz, TrampolineSelector)
    /\ primary[lookup.p].clazz \notin {NULL, lookup.clazz}

(***************************************************************************)
(* Properties of the death signals in the mailbox (SpecMailbox).           *)
(***************************************************************************)
\* The death signals the native has returned a notification for, and the
\* objects with a process finalizer.
DeathsDelivered ==
    {delivered[i] : i \in {j \in DOMAIN delivered :
                              messages[delivered[j]].kind = "PROCESS_DEATH_SIGNAL"}}
ProcessFinalizers == {w \in weak_pointers : w.callback = "FinalizeProcess"}

\* C33: a ProcessQueueGetMessage call for a death signal that returns the
\* notification increments the reference count of the handle by one and
\* registers one process finalizer, for the process object that field 0 of
\* the notification holds, an object with no finalizer before; a call that
\* returns retry_after_gc, its first allocation failed or the second,
\* leaves the count and the finalizers as they were; so, whatever the number
\* of failed calls, the count has gone up by one and one finalizer is
\* registered for every death signal delivered.
C33_OneReferenceOneFinalizer ==
    [][/\ (/\ current_message <= Len(messages)
           /\ messages[current_message].kind = "PROCESS_DEATH_SIGNAL"
           /\ << instances, native, current_message, weak_pointers, handle_refs >>'
                 # << instances, native, current_message, weak_pointers, handle_refs >>) =>
             IF current_message' = current_message + 1
             THEN /\ native'.result = "process_death"
                  /\ handle_refs' = handle_refs + 1
                  /\ native'.field0 \notin {w.object : w \in weak_pointers}
                  /\ native'.field0 \in (instances + 1)..instances'
                  /\ weak_pointers' = weak_pointers \cup
                        {[object |-> native'.field0, callback |-> "FinalizeProcess"]}
             ELSE /\ native'.result = "retry_after_gc"
                  /\ current_message' = current_message
                  /\ handle_refs' = handle_refs
                  /\ weak_pointers' = weak_pointers
       /\ handle_refs' = 1 + Cardinality(DeathsDelivered')
       /\ Cardinality(ProcessFinalizers') = Cardinality(DeathsDelivered')]_vars
\* A death signal was delivered after a call whose first allocation
\* succeeded and whose second failed: of the three instances allocated the
\* second is the process object, the only one with a finalizer, and the
\* handle has one reference more.
C33_Witness ==
    /\ DeathsDelivered = {1}
    /\ native.field0 = 2
    /\ instances = 3
    /\ handle_refs = 2
    /\ weak_pointers = {[object |-> 2, callback |-> "FinalizeProcess"]}

(***************************************************************************)
(* Properties of the loop of SendSignal (SpecSignal).                      *)
(***************************************************************************)
\* The senders that are back at the head of the loop after a
\* compare-exchange that failed.
AtLoopHeadAgain == {t \in Senders : senders[t].pc = "load"}

\* C34 as stated: the loop is an if.  A while and an if differ in what
\* follows a compare-exchange that failed, another test of the slot or the
\* decrement at once; they give the same outcomes when the slot is never
\* found empty by that test, so that the body is never executed twice.
C34_LoopIsAnIf ==
    \A t \in AtLoopHeadAgain : signal_ # NULL
\* C34 as amended: the body of the loop is executed again only when the
\* slot is still empty after a compare-exchange that failed; when the slot
\* is taken by then, the signal is decremented, as with an if; and a call
\* that has decremented its signal leaves the slot with another signal, not
\* empty.
C34_LoopRetriesOnEmptySlot ==
    [][\A t \in Senders :
          /\ (t \in AtLoopHeadAgain /\ senders'[t].pc = "cas") => signal_ = NULL
          /\ (t \in AtLoopHeadAgain /\ signal_ # NULL /\ senders'[t] # senders[t]) =>
                /\ senders'[t] = [pc |-> "done", result |-> "rejected"]
                /\ signal_refs'[t] = signal_refs[t] - 1
          /\ senders'[t].result = "rejected" => signal_' \notin {NULL, t}
          /\ senders'[t].result = "installed" => signal_refs'[t] = 1]_vars
\* The compare-exchange of the first sender has failed although the slot
\* is empty, and no other sender has begun: the loop tests the slot again
\* and executes its body a second time, where an if would decrement the
\* signal and leave the slot empty.
C34_Witness ==
    /\ senders[1].pc = "load"
    /\ signal_ = NULL
    /\ signal_refs[1] = 1
    /\ \A t \in Senders \ {1} : senders[t] = IdleSender

(***************************************************************************)
(* Termination of the loops around a weak compare-exchange                 *)
(* (SpecTermination).                                                      *)
(***************************************************************************)
\* The senders whose SendSignal call is under way, and those whose call
\* has returned.
Sending == {t \in FewSenders : senders[t].pc \in {"load", "cas"}}
SignalSent == {t \in FewSenders : senders[t].pc = "done"}
\* The owner is in ClearStackMarker.
Clearing == owner.pc \in {"clear_load", "clear_cas"}

\* C35: every call of SetStackMarker, of ClearStackMarker and of SendSignal
\* terminates when the weak compare-exchange does not fail spuriously for
\* ever and the competing updates are finitely many; and when SendSignal
\* has returned the slot holds the caller's signal or another one: it is
\* never empty with the caller's signal decremented.
C35_LoopsTerminate ==
    /\ \A t \in Setters : (setters[t].pc = "cas") ~> (setters[t].pc = "idle")
    /\ Clearing ~> (owner.pc = "usl_load")
    /\ \A t \in FewSenders : (t \in Sending) ~> (t \in SignalSent)
    /\ [](\A t \in SignalSent :
             /\ signal_ # NULL
             /\ senders[t].result = "installed" => signal_ = t /\ signal_refs[t] = 1
             /\ senders[t].result = "rejected" => signal_ # t /\ signal_refs[t] = 0
             /\ signal_refs[t] = 0 => senders[t].result = "rejected")
\* All three have returned: two markers were set, the owner has cleared one
\* of them, one sender installed its signal and the other was turned away.
C35_Witness ==
    /\ \A t \in Setters : setters[t].pc = "idle"
    /\ Cardinality(call.entry_pending) = 2
    /\ call.outcome = "ack"
    /\ owner.pc = "usl_load"
    /\ senders[1].result = "rejected"
    /\ senders[2].result = "installed"
    /\ signal_ = 2

(***************************************************************************)
(* The capacity of the lists of deltas (SpecCook).                         *)
(***************************************************************************)
\* The number of deltas CookStacks stored for the stack i of the chain.
DeltasStored(i) ==
    Len(cooked_stack_deltas_[i].written) + Len(cooked_stack_deltas_[i].beyond)

\* C36: in CookStacks, for every stack i of the chain, the number of deltas
\* written, one per frame of the stack i, never exceeds the capacity of the
\* list allocated for it, which is the length of the current stack and not
\* the length of the stack i, also when a chained stack is longer and holds
\* more frames than the current stack has words.
C36_DeltasWithinCapacity ==
    [][program_gc'.phase = "cooked" /\ program_gc.phase = "chained" =>
        LET table == TableOf(stack, objects)
            chain == ChainedStacks(table, stack.address, program_gc.number_of_stacks)
        IN  \A i \in DOMAIN chain :
               /\ cooked_stack_deltas_'[i].length = stack.length
               /\ DeltasStored(i)' = Len(FramesOf(StackOf(chain[i], table[chain[i]])))
               /\ DeltasStored(i)' <= cooked_stack_deltas_'[i].length]_vars

(***************************************************************************)
(* The order of the steps of Cleanup (SpecCleanup).                        *)
(***************************************************************************)
\* The ports ReceiverForPortsDied was told about.
PortsTold == {cleanup.told[i] : i \in DOMAIN cleanup.told}
\* The ports that refer to the process no more.
DetachedPorts == {port \in DOMAIN port_process : port_process[port].process = "null"}
\* The handle is marked as terminating.
HandleTerminating == process_handle_.process = "null"
\* The signals that linked processes have received.
DeathSignals == {i \in DOMAIN signals : ~signals[i].monitor}

\* C37: Cleanup performs its steps in a fixed order: the event handler is
\* told about the dying ports before any port is detached, all ports are
\* detached before the process handle is marked as terminating, and the
\* handle is marked before any linked process is notified; so from the
\* moment a linked process receives the death signal no new link or monitor
\* on the handle succeeds and no port refers to the process.
C37_CleanupInOrder ==
    [][/\ DetachedPorts' # DetachedPorts =>
             /\ cleanup.pc = "ports"
             /\ DetachedPorts' \subseteq PortsTold
             /\ ~HandleTerminating'
       /\ HandleTerminating' /\ ~HandleTerminating =>
             /\ DetachedPorts = DOMAIN port_process
             /\ PortsTold = DOMAIN port_process
             /\ ports_ = << >>
             /\ DeathSignals' = {}
       /\ DeathSignals' # DeathSignals =>
             /\ HandleTerminating
             /\ DetachedPorts = DOMAIN port_process
       /\ DeathSignals' # {} =>
             /\ links' = links
             /\ port_process' = port_process
             /\ \A process \in Processes, monitor \in BOOLEAN :
                   ~ENABLED Link(process, monitor)]_vars
\* Cleanup has run on a process with two ports, a linked process and a
\* monitor: the event handler was told about both ports, and the linked
\* process has its signal while the other process may link no more.
C37_Witness ==
    /\ cleanup.pc = "done"
    /\ Len(cleanup.told) = 2
    /\ links = {[process |-> "p1", monitor |-> FALSE], [process |-> "p2", monitor |-> TRUE]}
    /\ Cardinality(DeathSignals) = 1
    /\ HandleTerminating
    /\ Alive

====
